---- MODULE Spec2Model ----
(***************************************************************************)
(* A model of the zhos kernel: the task scheduler and task lifecycle       *)
(* (task.c), the sleeping synchronisation primitives (mutex.c, sem.c), the *)
(* intrusive linked list they are built on (list.c) and the heap extension *)
(* of the memory manager (memory.c).                                       *)
(*                                                                         *)
(* The kernel is uniprocessor.  Code between irq_enter_protection and      *)
(* irq_leave_protection runs with interrupts off, so each such section is  *)
(* one action; a timer or keyboard interrupt is an action of its own that  *)
(* can be taken between any two of them.  A task executes only while it is *)
(* task_manager.curr_task; pc[t] is the place it continues from.           *)
(***************************************************************************)
EXTENDS Integers, Sequences, FiniteSets, TLC

----------------------------------------------------------------------------
(* Bounds of the model *)

\* slots of task_table[] that are modelled (TASK_NR is 128 in os_cfg.h)
MaxTasks == 2
\* tasks of task_table[] alive at once while tasks fork, wait and exit
MaxLive == 1
\* time slice in ticks given to a task (TASK_TIME_SLICE_DEFAULT is 10)
TimeSlice == 2
\* deepest recursive acquisition of mutex a task attempts
MaxLock == 2
\* most notifications sem counts ahead of the tasks that wait on it
SemCap == 1
\* pages of the bitmap (paddr_alloc.size / MEM_PAGE_SIZE)
NPages == 5
\* entries of a page directory that map user space
PdeCnt == 2
\* entries of a page table (PTE_CNT is 1024)
PteCnt == 2
\* pages of the bitmap where tasks are created, load programs and are reaped
ResPages == 12
\* descriptors of gdt_table[] (GDT_TABLE_SIZE is 256)
GdtSize == 10
\* entries of a task's file_table[] (TASK_OFILE_NR is 128)
OfileNr == 3
\* TTY_IBUF_SIZE, the bytes the input FIFO of a tty holds
IbufSize == 3
\* the keys typed while one tty_read is served
MaxKeys == 4
\* TTY_OBUF_SIZE, the bytes the output FIFO of a tty holds
ObufSize == 2
\* nodes task_manager.task_list counts when the last fork is made
MaxLinks == 4

----------------------------------------------------------------------------
(* Program constants *)

OS_TICK_MS == 10
\* the interrupt enable flag of EFLAGS (1 << 9)
EFLAGS_IF == 512
MEM_PAGE_SIZE == 4096
\* paddr_alloc.start: physical memory above 1 MiB
MEM_EXT_START == 1048576
\* (MEMORY_TASK_BASE - MEM_EXT_START) / MEM_PAGE_SIZE with the task base at
\* 0x80000000; a user virtual address is written relative to that base
TaskBasePage == 524032

\* descriptors 1 .. GdtBoot are taken when the first task starts: kernel code
\* and data, the system call gate, application data and code, and the TSS of
\* the idle task and of the first task
GdtBoot == 7
\* sizeof(segment_desc_t)
DescSize == 8

\* A uint32_t address a is written a - MEMORY_TASK_BASE, so the user half of
\* the address space is 0 .. UserSpace - 1 and the kernel half, which is as
\* large, -UserSpace .. -1; Wrap is the address a sum comes to in uint32_t.
UserSpace == PdeCnt * PteCnt * MEM_PAGE_SIZE
Wrap(a) == ((a + UserSpace) % (2 * UserSpace)) - UserSpace

\* the virtual address 0
VAddrZero == -UserSpace

\* the characters '\n' and '\r', and ASCII_DEL
CharNL == 10
CharCR == 13
ASCII_DEL == 127
\* the keys typed: 'h', 'i', Enter as '\r' or as '\n', and delete
Chars == {104, 105, CharCR, CharNL, ASCII_DEL}

\* (task_t *)0
NoTask == 0
\* &task_manager.idle_task, &task_manager.first_task, task_table + i
idle_task == 1
first_task == 2
task_table == 3 .. (2 + MaxTasks)
Tasks == {idle_task, first_task} \cup task_table

\* the enum of task_t.state; a zeroed task_t reads TASK_CREATED
TASK_CREATED == "CREATED"
TASK_RUNNING == "RUNNING"
TASK_SLEEP == "SLEEP"
TASK_READY == "READY"
TASK_WAITING == "WAITING"
TASK_ZOMBIE == "ZOMBIE"

\* exit statuses and sleep lengths the user programs pass
ExitCodes == {3, 7}
Incrs == {0, 2048, 4096, 6144, 8192}
HeapStarts == {2048, 4096}
MsValues == {1, 10, 11, 20}

\* a list_node_t that is linked nowhere, and an empty list_t
NullNode == [pre |-> NoTask, next |-> NoTask]
EmptyList == [first |-> NoTask, last |-> NoTask, count |-> 0]

\* a page table with no entry present, a page directory entry that is not
\* present, and a page directory that maps no user page.  An entry of a
\* table is the physical address it maps, 0 when not present; the table a
\* directory entry points to is kept with the entry.
EmptyTable == [j \in 0 .. (PteCnt - 1) |-> 0]
NoPde == [present |-> FALSE, paddr |-> 0, pte |-> EmptyTable]
EmptyDir == [i \in 0 .. (PdeCnt - 1) |-> NoPde]

\* kernel_memset(task, 0, sizeof(task_t))
\* page_dir is what the page directory at tss.cr3 holds for user space, eip
\* the eip of the saved system call frame; cr3 and esp0 are physical addresses
NoFiles == [fd \in 0 .. (OfileNr - 1) |-> 0]
BootGdt == [i \in 1 .. (GdtSize - 1) |-> IF i <= GdtBoot THEN 1 ELSE 0]
ZeroTask ==
    [state |-> TASK_CREATED, name |-> 0, pid |-> 0, parent |-> NoTask,
     status |-> 0, sleep_ticks |-> 0, time_slice |-> 0, slice_ticks |-> 0,
     heap_start |-> VAddrZero, heap_end |-> VAddrZero, page_dir |-> EmptyDir,
     file_table |-> NoFiles, cr3 |-> 0, esp0 |-> 0, tss_sel |-> 0, eip |-> 0,
     run_node |-> NullNode, wait_node |-> NullNode]

\* tty_open: an empty input FIFO, iflags = TTY_INLCR | TTY_IECHO and
\* oflags = TTY_OCRLF; keys counts the keys typed since tty_read was entered
NewTty == [ififo |-> << >>, iflags |-> {"INLCR", "IECHO"}, oflags |-> {"OCRLF"},
           keys |-> 0, ofifo |-> << >>, osem |-> ObufSize]

\* the one element of a set: { e(x) : x \in {v} } names v once, as x
Only(S) == CHOOSE x \in S : TRUE

----------------------------------------------------------------------------
(* list.c: the intrusive doubly linked list.  T is the array of task_t, f   *)
(* names the list_node_t member used ("run_node" or "wait_node"); a node is *)
(* identified with the task that embeds it.  Each operator returns the new  *)
(* list header and the new task array.                                     *)

\* a queue that puts a new node at its head: tasks would be woken last in,
\* first out
list_insert_at_head(T, list, node, f) ==
    LET T1 == [T EXCEPT ![node][f] = [pre |-> NoTask, next |-> list.first]]
    IN  IF list.count = 0
        THEN [T |-> T1,
              list |-> [first |-> node, last |-> node, count |-> list.count + 1]]
        ELSE [T |-> IF list.first = NoTask THEN T1
                    ELSE [T1 EXCEPT ![list.first][f].pre = node],
              list |-> [first |-> node, last |-> list.last,
                        count |-> list.count + 1]]

list_insert_last(T, list, node, f) ==
    LET T1 == [T EXCEPT ![node][f] = [pre |-> list.last, next |-> NoTask]]
    IN  IF list.count = 0
        THEN [T |-> T1,
              list |-> [first |-> node, last |-> node, count |-> list.count + 1]]
        ELSE [T |-> IF list.last = NoTask THEN T1
                    ELSE [T1 EXCEPT ![list.last][f].next = node],
              list |-> [first |-> list.first, last |-> node,
                        count |-> list.count + 1]]

\* returns also the removed node (NoTask for an empty list)
list_remove_first(T, list, f) ==
    IF list.count = 0
    THEN [T |-> T, list |-> list, node |-> NoTask]
    ELSE LET rm == list.first
             nf == IF rm = NoTask THEN NoTask ELSE T[rm][f].next
             T1 == IF nf = NoTask THEN T ELSE [T EXCEPT ![nf][f].pre = NoTask]
             T2 == IF rm = NoTask THEN T1 ELSE [T1 EXCEPT ![rm][f] = NullNode]
         IN  [T |-> T2,
              list |-> [first |-> nf,
                        last |-> IF nf = NoTask THEN NoTask ELSE list.last,
                        count |-> list.count - 1],
              node |-> rm]

\* does not check that the node is in the list
list_remove(T, list, node, f) ==
    LET n  == T[node][f]
        T1 == IF n.pre = NoTask THEN T
              ELSE [T EXCEPT ![n.pre][f].next = n.next]
        nx == T1[node][f].next
        T2 == IF nx = NoTask THEN T1
              ELSE [T1 EXCEPT ![nx][f].pre = T1[node][f].pre]
    IN  [T |-> [T2 EXCEPT ![node][f] = NullNode],
         list |-> [first |-> IF node = list.first THEN n.next ELSE list.first,
                   last |-> IF node = list.last THEN n.pre ELSE list.last,
                   count |-> list.count - 1]]

\* the nodes met walking a list from its head along next, at most k of them
RECURSIVE Walk(_, _, _, _)
Walk(T, node, f, k) ==
    IF node = NoTask \/ k = 0 THEN << >>
    ELSE << node >> \o Walk(T, T[node][f].next, f, k - 1)

ListSeq(T, list, f) == Walk(T, list.first, f, Cardinality(Tasks) + 1)
ListSet(T, list, f) == {ListSeq(T, list, f)[i] : i \in 1 .. Len(ListSeq(T, list, f))}

----------------------------------------------------------------------------
(* task_manager.task_list, the list of all tasks, with the all_node of      *)
(* every task_t.  task_init appends to it and kernel_memset of a task_t     *)
(* zeroes that task's all_node; no code reads the list or removes from it,   *)
(* so the other variables never depend on it.  SpecAll follows it; the      *)
(* other specifications leave it as it is after boot.                       *)

\* list_init(&task_manager.task_list)
EmptyTaskList ==
    [first |-> NoTask, last |-> NoTask, count |-> 0,
     all_node |-> [t \in Tasks |-> NullNode]]

\* task_init: list_node_init(&task->all_node) and
\* list_insert_last(&task_manager.task_list, &task->all_node)
task_list_insert(tl, node) ==
    Only({ [first |-> r.list.first, last |-> r.list.last, count |-> r.list.count,
            all_node |-> [t \in Tasks |-> r.T[t].all_node]]
           : r \in {list_insert_last(
                      [t \in Tasks |-> [all_node |-> tl.all_node[t]]],
                      [first |-> tl.first, last |-> tl.last, count |-> tl.count],
                      node, "all_node")} })

\* kernel_memset(task, 0, sizeof(task_t)) as far as all_node goes
task_list_memset(tl, node) == [tl EXCEPT !.all_node[node] = NullNode]

\* the list after task_init of the tasks in S, lowest first
RECURSIVE TaskListOf(_, _)
TaskListOf(S, tl) ==
    IF S = {} THEN tl
    ELSE LET m == CHOOSE x \in S : \A y \in S : x <= y
         IN  TaskListOf(S \ {m}, task_list_insert(tl, m))

\* the list when the tasks of T have been created and none reaped
BootTaskList(T) == TaskListOf({t \in Tasks : T[t].name # 0}, EmptyTaskList)

\* the kernel mutexes beside task_table_mutex: mutex of the GDT (log.h),
\* paddr_alloc.mutex and file_alloc_mutex
KMutexes == {"gdt", "paddr", "file"}

----------------------------------------------------------------------------
(* State *)

VARIABLES
    tasks,              \* task_manager.idle_task, .first_task and task_table[]
    curr_task,          \* task_manager.curr_task (NoTask once the CPU is halted)
    ready_list,         \* task_manager.ready_list
    sleep_list,         \* task_manager.sleep_list
    task_table_mutex,   \* the mutex of task.c
    mutex,              \* a mutex_t kernel code locks recursively (log.h)
    sem,                \* a sem_t signalled from the keyboard interrupt (tty isem)
    pc,                 \* where each task continues when it is the current task
    local,              \* the local variables of the system call a task is in
    obs,                \* what the calls returned and when tasks blocked (history)
    gdt_table,          \* gdt_table[i].attr # 0: descriptor i is taken
    tty,                \* tty_devs[curr_tty]: its input FIFO and its flags
    paddr_alloc,        \* paddr_alloc.bitmap: bit i is 1 when page i is allocated
    kernel_pages,       \* the pages memory_alloc_page has handed to kernel code
    task_list,          \* task_manager.task_list and every task's all_node
    eflags,             \* the IF bit of the CPU's EFLAGS: 0 or EFLAGS_IF
    kmutex              \* the mutexes of the GDT, of paddr_alloc and of the file table

vars == << tasks, curr_task, ready_list, sleep_list, task_table_mutex, mutex,
           sem, pc, local, obs, gdt_table, paddr_alloc, kernel_pages, tty,
           task_list, eflags, kmutex >>

\* the scheduler state the operators below transform
Sched == [T |-> tasks, ready |-> ready_list, sleep |-> sleep_list,
          curr |-> curr_task]

----------------------------------------------------------------------------
(* task.c: the scheduler.  K is a scheduler state as in Sched. *)

\* a task_set_ready that queues the idle task like any other
task_set_ready_any(K, task) ==
    LET r == list_insert_last(K.T, K.ready, task, "run_node")
    IN  [K EXCEPT !.T = [r.T EXCEPT ![task].state = TASK_READY],
                  !.ready = r.list]

task_set_ready(K, task) ==
    IF task # idle_task
    THEN LET r == list_insert_last(K.T, K.ready, task, "run_node")
         IN  [K EXCEPT !.T = [r.T EXCEPT ![task].state = TASK_READY],
                       !.ready = r.list]
    ELSE K

task_set_block(K, task) ==
    IF task # idle_task
    THEN LET r == list_remove(K.T, K.ready, task, "run_node")
         IN  [K EXCEPT !.T = r.T, !.ready = r.list]
    ELSE K

task_next_run(K) ==
    IF K.ready.count = 0 THEN idle_task ELSE K.ready.first

task_set_sleep(K, task, ticks) ==
    IF ticks <= 0
    THEN K
    ELSE LET T1 == [K.T EXCEPT ![task].sleep_ticks = ticks,
                               ![task].state = TASK_SLEEP]
             r  == list_insert_last(T1, K.sleep, task, "run_node")
         IN  [K EXCEPT !.T = r.T, !.sleep = r.list]

task_set_wakeup(K, task) ==
    LET r == list_remove(K.T, K.sleep, task, "run_node")
    IN  [K EXCEPT !.T = r.T, !.sleep = r.list]

\* a dispatch to a null task faults in kernel mode: the CPU halts for good
task_dispatch(K) ==
    LET to == task_next_run(K)
    IN  IF to = K.curr THEN K
        ELSE IF to = NoTask THEN [K EXCEPT !.curr = NoTask]
        ELSE [K EXCEPT !.curr = to, !.T = [K.T EXCEPT ![to].state = TASK_RUNNING]]

\* the loop of task_time_tick over the sleep list; k bounds a walk of a list
\* whose links have been damaged into a cycle
RECURSIVE WakeSleepers(_, _, _)
WakeSleepers(K, node, k) ==
    IF node = NoTask \/ k = 0 THEN K
    ELSE Only({ WakeSleepers(K2, K.T[node].run_node.next, k - 1)
                : K2 \in { IF K1.T[node].sleep_ticks = 0
                           THEN task_set_ready(task_set_wakeup(K1, node), node)
                           ELSE K1
                           : K1 \in {[K EXCEPT !.T[node].sleep_ticks = @ - 1]} } })

\* a tick that reloads the slice and leaves the task at the head of the list
task_time_tick_in_place(K) ==
    Only({ task_dispatch(K3)
           : K3 \in { WakeSleepers(K2, K2.sleep.first, Cardinality(Tasks) + 1)
                      : K2 \in { IF K1.T[K.curr].slice_ticks = 0
                                 THEN [K1 EXCEPT !.T[K.curr].slice_ticks =
                                                   K1.T[K.curr].time_slice]
                                 ELSE K1
                                 : K1 \in {[K EXCEPT !.T[K.curr].slice_ticks = @ - 1]} } } })

task_time_tick(K) ==
    Only({ task_dispatch(K3)
           : K3 \in { WakeSleepers(K2, K2.sleep.first, Cardinality(Tasks) + 1)
                      : K2 \in { IF K1.T[K.curr].slice_ticks = 0
                                 THEN task_set_ready(
                                        task_set_block(
                                          [K1 EXCEPT !.T[K.curr].slice_ticks =
                                                       K1.T[K.curr].time_slice],
                                          K.curr),
                                        K.curr)
                                 ELSE K1
                                 : K1 \in {[K EXCEPT !.T[K.curr].slice_ticks = @ - 1]} } } })

sys_yield(K) ==
    IF K.ready.count > 1
    THEN task_dispatch(task_set_ready(task_set_block(K, K.curr), K.curr))
    ELSE K

\* a tick count rounded down: 11 ms would sleep one tick
MsleepTicksRoundedDown(ms) ==
    LET m == IF ms < OS_TICK_MS THEN OS_TICK_MS ELSE ms
    IN  m \div OS_TICK_MS

\* the ticks sys_msleep asks for
MsleepTicks(ms) ==
    LET m == IF ms < OS_TICK_MS THEN OS_TICK_MS ELSE ms
    IN  (m + (OS_TICK_MS - 1)) \div OS_TICK_MS

sys_msleep(K, ms) ==
    task_dispatch(task_set_sleep(task_set_block(K, K.curr), K.curr, MsleepTicks(ms)))

----------------------------------------------------------------------------
(* mutex.c and sem.c.  Each operator takes the scheduler state and the      *)
(* object and returns both, with blocked telling whether the caller was     *)
(* switched out and woke the task that was made ready (NoTask if none).     *)

NewMutex == [locked_count |-> 0, owner |-> NoTask, wait_list |-> EmptyList]
NewSem(init_count) == [count |-> init_count, wait_list |-> EmptyList]

\* a lock that lets every caller in
mutex_lock_open(K, M) ==
    [K |-> K, M |-> [M EXCEPT !.locked_count = @ + 1, !.owner = K.curr],
     blocked |-> FALSE]

\* a lock whose owner does not count its own further locks
mutex_lock_uncounted(K, M) ==
    LET curr == K.curr
    IN  IF M.locked_count = 0
        THEN [K |-> K, M |-> [M EXCEPT !.locked_count = @ + 1, !.owner = curr],
              blocked |-> FALSE]
        ELSE IF M.owner = curr
        THEN [K |-> K, M |-> M, blocked |-> FALSE]
        ELSE LET K1 == task_set_block(K, curr)
                 r  == list_insert_last(K1.T, M.wait_list, curr, "wait_node")
             IN  [K |-> task_dispatch([K1 EXCEPT !.T = r.T]),
                  M |-> [M EXCEPT !.wait_list = r.list], blocked |-> TRUE]

mutex_lock(K, M) ==
    LET curr == K.curr
    IN  IF M.locked_count = 0
        THEN [K |-> K, M |-> [M EXCEPT !.locked_count = @ + 1, !.owner = curr],
              blocked |-> FALSE]
        ELSE IF M.owner = curr
        THEN [K |-> K, M |-> [M EXCEPT !.locked_count = @ + 1], blocked |-> FALSE]
        ELSE LET K1 == task_set_block(K, curr)
                 r  == list_insert_last(K1.T, M.wait_list, curr, "wait_node")
             IN  [K |-> task_dispatch([K1 EXCEPT !.T = r.T]),
                  M |-> [M EXCEPT !.wait_list = r.list], blocked |-> TRUE]

\* an unlock that does not ask who the owner is
mutex_unlock_by_anyone(K, M) ==
    IF M.locked_count - 1 # 0
    THEN [K |-> K, M |-> [M EXCEPT !.locked_count = @ - 1], woke |-> NoTask]
    ELSE IF M.wait_list.count = 0
    THEN [K |-> K, M |-> [M EXCEPT !.locked_count = 0, !.owner = NoTask],
          woke |-> NoTask]
    ELSE LET r  == list_remove_first(K.T, M.wait_list, "wait_node")
             K1 == task_set_ready([K EXCEPT !.T = r.T], r.node)
         IN  [K |-> task_dispatch(K1),
              M |-> [locked_count |-> 1, owner |-> r.node, wait_list |-> r.list],
              woke |-> r.node]

\* an unlock that wakes the first waiter but leaves the mutex free
mutex_unlock_released(K, M) ==
    IF M.owner # K.curr
    THEN [K |-> K, M |-> M, woke |-> NoTask]
    ELSE IF M.locked_count - 1 # 0
    THEN [K |-> K, M |-> [M EXCEPT !.locked_count = @ - 1], woke |-> NoTask]
    ELSE IF M.wait_list.count = 0
    THEN [K |-> K, M |-> [M EXCEPT !.locked_count = 0, !.owner = NoTask],
          woke |-> NoTask]
    ELSE LET r  == list_remove_first(K.T, M.wait_list, "wait_node")
             K1 == task_set_ready([K EXCEPT !.T = r.T], r.node)
         IN  [K |-> task_dispatch(K1),
              M |-> [locked_count |-> 0, owner |-> NoTask, wait_list |-> r.list],
              woke |-> r.node]

\* an unlock that forgets to clear the owner of a mutex nobody waits for
mutex_unlock_keeps_owner(K, M) ==
    IF M.owner # K.curr
    THEN [K |-> K, M |-> M, woke |-> NoTask]
    ELSE IF M.locked_count - 1 # 0
    THEN [K |-> K, M |-> [M EXCEPT !.locked_count = @ - 1], woke |-> NoTask]
    ELSE IF M.wait_list.count = 0
    THEN [K |-> K, M |-> [M EXCEPT !.locked_count = 0], woke |-> NoTask]
    ELSE LET r  == list_remove_first(K.T, M.wait_list, "wait_node")
             K1 == task_set_ready([K EXCEPT !.T = r.T], r.node)
         IN  [K |-> task_dispatch(K1),
              M |-> [locked_count |-> 1, owner |-> r.node, wait_list |-> r.list],
              woke |-> r.node]

mutex_unlock(K, M) ==
    IF M.owner # K.curr
    THEN [K |-> K, M |-> M, woke |-> NoTask]
    ELSE IF M.locked_count - 1 # 0
    THEN [K |-> K, M |-> [M EXCEPT !.locked_count = @ - 1], woke |-> NoTask]
    ELSE IF M.wait_list.count = 0
    THEN [K |-> K, M |-> [M EXCEPT !.locked_count = 0, !.owner = NoTask],
          woke |-> NoTask]
    ELSE LET r  == list_remove_first(K.T, M.wait_list, "wait_node")
             K1 == task_set_ready([K EXCEPT !.T = r.T], r.node)
         IN  [K |-> task_dispatch(K1),
              M |-> [locked_count |-> 1, owner |-> r.node, wait_list |-> r.list],
              woke |-> r.node]

\* a wait that takes no count
\* a wait that queues the caller without taking it off the ready list
sem_wait_still_ready(K, S) ==
    IF S.count > 0
    THEN [K |-> K, S |-> [S EXCEPT !.count = @ - 1], blocked |-> FALSE]
    ELSE LET curr == K.curr
             r    == list_insert_last(K.T, S.wait_list, curr, "wait_node")
         IN  [K |-> task_dispatch([K EXCEPT !.T = r.T]),
              S |-> [S EXCEPT !.wait_list = r.list], blocked |-> TRUE]

sem_wait_free(K, S) ==
    IF S.count > 0
    THEN [K |-> K, S |-> S, blocked |-> FALSE]
    ELSE LET curr == K.curr
             K1 == task_set_block(K, curr)
             r  == list_insert_last(K1.T, S.wait_list, curr, "wait_node")
         IN  [K |-> task_dispatch([K1 EXCEPT !.T = r.T]),
              S |-> [S EXCEPT !.wait_list = r.list], blocked |-> TRUE]

sem_wait(K, S) ==
    IF S.count > 0
    THEN [K |-> K, S |-> [S EXCEPT !.count = @ - 1], blocked |-> FALSE]
    ELSE LET curr == K.curr
             K1 == task_set_block(K, curr)
             r  == list_insert_last(K1.T, S.wait_list, curr, "wait_node")
         IN  [K |-> task_dispatch([K1 EXCEPT !.T = r.T]),
              S |-> [S EXCEPT !.wait_list = r.list], blocked |-> TRUE]

\* a sem_notify that makes the woken task ready and leaves the switch to the
\* next timer tick
sem_notify_undispatched(K, S) ==
    IF S.wait_list.count # 0
    THEN LET r  == list_remove_first(K.T, S.wait_list, "wait_node")
             K1 == task_set_ready([K EXCEPT !.T = r.T], r.node)
         IN  [K |-> K1, S |-> [S EXCEPT !.wait_list = r.list], woke |-> r.node]
    ELSE [K |-> K, S |-> [S EXCEPT !.count = @ + 1], woke |-> NoTask]

\* a sem_notify that counts the notification also when it wakes a task
sem_notify_always_counts(K, S) ==
    IF S.wait_list.count # 0
    THEN LET r  == list_remove_first(K.T, S.wait_list, "wait_node")
             K1 == task_set_ready([K EXCEPT !.T = r.T], r.node)
         IN  [K |-> task_dispatch(K1),
              S |-> [S EXCEPT !.wait_list = r.list, !.count = @ + 1],
              woke |-> r.node]
    ELSE [K |-> K, S |-> [S EXCEPT !.count = @ + 1], woke |-> NoTask]

sem_notify(K, S) ==
    IF S.wait_list.count # 0
    THEN LET r  == list_remove_first(K.T, S.wait_list, "wait_node")
             K1 == task_set_ready([K EXCEPT !.T = r.T], r.node)
         IN  [K |-> task_dispatch(K1), S |-> [S EXCEPT !.wait_list = r.list],
              woke |-> r.node]
    ELSE [K |-> K, S |-> [S EXCEPT !.count = @ + 1], woke |-> NoTask]

----------------------------------------------------------------------------
(* memory.c: the physical page allocator, the page tables and sys_sbrk.     *)
(* bits is paddr_alloc.bitmap and dir a page directory.  A user virtual     *)
(* address is written relative to MEMORY_TASK_BASE.                         *)

pde_index(vaddr) == (vaddr \div (MEM_PAGE_SIZE * PteCnt)) % PdeCnt
pte_index(vaddr) == (vaddr \div MEM_PAGE_SIZE) % PteCnt

\* bitmap.c: the lowest index at or after bit of a run of count clear bits,
\* which it sets; index -1 when there is none
bitmap_alloc_nbits(bits, bit, count) ==
    LET fit == {i \in 0 .. (Cardinality(DOMAIN bits) - count) :
                  \A k \in i .. (i + count - 1) : bits[k] = bit}
    IN  IF fit = {}
        THEN [bits |-> bits, index |-> -1]
        ELSE Only({ [bits |-> [k \in DOMAIN bits |->
                                 IF k \in i .. (i + count - 1)
                                 THEN 1 - bit ELSE bits[k]],
                     index |-> i]
                    : i \in {CHOOSE i \in fit : \A k \in fit : i <= k} })

\* bitmap.c: count bits from index on take the value bit; an index past the
\* bits of the allocator's pages is no page of the allocator
bitmap_set_bit(bits, index, count, bit) ==
    [k \in DOMAIN bits |->
       IF k \in index .. (index + count - 1) THEN bit ELSE bits[k]]

addr_alloc_page(bits, page_count) ==
    Only({ IF b.index >= 0
           THEN [bits |-> b.bits,
                 addr |-> MEM_EXT_START + b.index * MEM_PAGE_SIZE]
           ELSE [bits |-> b.bits, addr |-> 0]
           : b \in {bitmap_alloc_nbits(bits, 0, page_count)} })

\* page_index is (addr - alloc->start) / alloc->page_size
addr_free_page(bits, page_index, page_count) ==
    bitmap_set_bit(bits, page_index, page_count, 0)

\* pte is the place of the entry, << >> for a null pointer
find_pte(dir, bits, vaddr, alloc) ==
    LET i == pde_index(vaddr)
        j == pte_index(vaddr)
    IN  IF dir[i].present
        THEN [dir |-> dir, bits |-> bits, pte |-> << i, j >>]
        ELSE IF alloc = 0
        THEN [dir |-> dir, bits |-> bits, pte |-> << >>]
        ELSE Only({ IF a.addr = 0
                    THEN [dir |-> dir, bits |-> bits, pte |-> << >>]
                    ELSE [dir |-> [dir EXCEPT ![i] = [present |-> TRUE,
                                                      paddr |-> a.addr,
                                                      pte |-> EmptyTable]],
                          bits |-> a.bits, pte |-> << i, j >>]
                    : a \in {addr_alloc_page(bits, 1)} })

\* memory_create_map of one page; the ASSERT on a present entry stops the
\* kernel (panic).  The kernel half of every directory is kernel_page_dir's,
\* where create_kernel_table has mapped low memory from address 0 on.
memory_create_map(dir, bits, vaddr, paddr) ==
    IF vaddr < 0
    THEN [dir |-> dir, bits |-> bits, err |-> 0, panic |-> TRUE]
    ELSE
    Only({ IF f.pte = << >>
           THEN [dir |-> f.dir, bits |-> f.bits, err |-> -1, panic |-> FALSE]
           ELSE IF f.dir[f.pte[1]].pte[f.pte[2]] # 0
           THEN [dir |-> f.dir, bits |-> f.bits, err |-> 0, panic |-> TRUE]
           ELSE [dir |-> [f.dir EXCEPT ![f.pte[1]].pte[f.pte[2]] = paddr],
                 bits |-> f.bits, err |-> 0, panic |-> FALSE]
           : f \in {find_pte(dir, bits, vaddr, 1)} })

\* the loop of memory_alloc_for_page_dir from page i on.  Its result is a
\* uint32_t: the -1 of a failed mapping reaches sys_sbrk as the int -1, the
\* 0 of a failed page allocation as 0.
RECURSIVE alloc_pages(_, _, _, _, _, _)
alloc_pages(dir, bits, vaddr, curr_vaddr, i, page_count) ==
    IF i >= page_count
    THEN [dir |-> dir, bits |-> bits, ret |-> 0, panic |-> FALSE]
    ELSE Only({
           IF a.addr = 0
           THEN [dir |-> dir, bits |-> bits, ret |-> 0, panic |-> FALSE]
           ELSE Only({
                  IF m.panic
                  THEN [dir |-> m.dir, bits |-> m.bits, ret |-> 0, panic |-> TRUE]
                  ELSE IF m.err < 0
                  THEN [dir |-> m.dir,
                        bits |-> addr_free_page(
                                   m.bits,
                                   TaskBasePage + vaddr \div MEM_PAGE_SIZE,
                                   i + 1),
                        ret |-> -1, panic |-> FALSE]
                  ELSE alloc_pages(m.dir, m.bits, vaddr,
                                   Wrap(curr_vaddr + MEM_PAGE_SIZE), i + 1,
                                   page_count)
                  : m \in {memory_create_map(dir, a.bits, curr_vaddr, a.addr)} })
           : a \in {addr_alloc_page(bits, 1)} })

memory_alloc_for_page_dir(dir, bits, vaddr, size) ==
    alloc_pages(dir, bits, (vaddr \div MEM_PAGE_SIZE) * MEM_PAGE_SIZE, vaddr, 0,
                (size + MEM_PAGE_SIZE - 1) \div MEM_PAGE_SIZE)

\* sys_sbrk of the task with record task; ret is the pointer returned, -1
\* for (char *)-1
Grown(task, bits, heap_end, ret) ==
    [dir |-> task.page_dir, bits |-> bits, heap_end |-> heap_end, ret |-> ret,
     panic |-> FALSE]

sys_sbrk(task, bits, incr) ==
    LET pre_heap_end == task.heap_end
        end == Wrap(task.heap_end + incr)
        start_offset == task.heap_end % MEM_PAGE_SIZE
        curr_size == MEM_PAGE_SIZE - start_offset
        start == IF start_offset # 0 THEN Wrap(task.heap_end + curr_size)
                 ELSE task.heap_end
        rest == IF start_offset # 0 THEN incr - curr_size ELSE incr
    IN  IF incr = 0
        THEN Grown(task, bits, pre_heap_end, pre_heap_end)
        ELSE IF start_offset # 0 /\ start_offset + incr <= MEM_PAGE_SIZE
        THEN Grown(task, bits, end, pre_heap_end)
        ELSE IF rest = 0
        THEN Grown(task, bits, end, pre_heap_end)
        ELSE Only({
               IF r.panic
               THEN [dir |-> r.dir, bits |-> r.bits, heap_end |-> pre_heap_end,
                     ret |-> 0, panic |-> TRUE]
               ELSE IF r.ret < 0
               THEN [dir |-> r.dir, bits |-> r.bits, heap_end |-> pre_heap_end,
                     ret |-> -1, panic |-> FALSE]
               ELSE [dir |-> r.dir, bits |-> r.bits, heap_end |-> end,
                     ret |-> pre_heap_end, panic |-> FALSE]
               : r \in {memory_alloc_for_page_dir(task.page_dir, bits, start,
                                                  (end - start) % (2 * UserSpace))} })

\* a loaded program of one page at the task base: its page is page 0 of the
\* allocator and its page table page 1
ImageBitmap == [k \in 0 .. (NPages - 1) |-> IF k < 2 THEN 1 ELSE 0]
ImageDir ==
    [EmptyDir EXCEPT ![0] = [present |-> TRUE,
                             paddr |-> MEM_EXT_START + MEM_PAGE_SIZE,
                             pte |-> [EmptyTable EXCEPT ![0] = MEM_EXT_START]]]

----------------------------------------------------------------------------
(* The descriptors, kernel stacks and page directories of tasks.            *)

\* the lowest free descriptor after descriptor 0, marked taken
gdt_alloc_desc(gdt) ==
    LET free == {i \in DOMAIN gdt : gdt[i] = 0}
    IN  IF free = {}
        THEN [gdt |-> gdt, sel |-> -1]
        ELSE Only({ [gdt |-> [gdt EXCEPT ![i] = 1], sel |-> i * DescSize]
                    : i \in {CHOOSE i \in free : \A k \in free : i <= k} })

gdt_free_sel(gdt, sel) == [gdt EXCEPT ![sel \div DescSize] = 0]

\* the index in the bitmap of the page at a physical address
PageOf(addr) == (addr - MEM_EXT_START) \div MEM_PAGE_SIZE

memory_alloc_page(bits) == addr_alloc_page(bits, 1)

\* memory_free_page of an address below MEMORY_TASK_BASE
memory_free_page(bits, addr) == addr_free_page(bits, PageOf(addr), 1)

\* page_dir is 0 when no page is left
memory_create_uvm(bits) ==
    Only({ [bits |-> a.bits, page_dir |-> a.addr]
           : a \in {addr_alloc_page(bits, 1)} })

\* the physical pages of the user half of a directory: mapped pages, page
\* tables, and the directory itself
LeafPages(dir) ==
    {dir[i].pte[j] : << i, j >> \in
        {x \in (0 .. (PdeCnt - 1)) \X (0 .. (PteCnt - 1)) :
            dir[x[1]].present /\ dir[x[1]].pte[x[2]] # 0}}
TablePages(dir) == {dir[i].paddr : i \in {k \in 0 .. (PdeCnt - 1) : dir[k].present}}

\* a destroy that keeps the page tables
memory_destroy_uvm_leaves(bits, cr3, dir) ==
    [k \in DOMAIN bits |->
       IF k \in {PageOf(a) : a \in LeafPages(dir) \cup {cr3}}
       THEN 0 ELSE bits[k]]

\* addr_free_page of every mapped user page, of every user page table and of
\* the directory
memory_destroy_uvm(bits, cr3, dir) ==
    [k \in DOMAIN bits |->
       IF k \in {PageOf(a) : a \in LeafPages(dir) \cup TablePages(dir) \cup {cr3}}
       THEN 0 ELSE bits[k]]

\* the loop of memory_copy_uvm from user page n on; cr3 is -1 for the
\* (uint32_t)-1 of a failed copy
RECURSIVE copy_pages(_, _, _, _, _)
copy_pages(bits, from, to_cr3, to, n) ==
    IF n >= PdeCnt * PteCnt
    THEN [bits |-> bits, cr3 |-> to_cr3, dir |-> to]
    ELSE IF ~from[n \div PteCnt].present \/ from[n \div PteCnt].pte[n % PteCnt] = 0
    THEN copy_pages(bits, from, to_cr3, to, n + 1)
    ELSE Only({
           IF a.addr = 0
           THEN [bits |-> memory_destroy_uvm(a.bits, to_cr3, to),
                 cr3 |-> -1, dir |-> EmptyDir]
           ELSE Only({
                  IF m.err < 0
                  THEN [bits |-> memory_destroy_uvm(m.bits, to_cr3, m.dir),
                        cr3 |-> -1, dir |-> EmptyDir]
                  ELSE copy_pages(m.bits, from, to_cr3, m.dir, n + 1)
                  : m \in {memory_create_map(to, a.bits, n * MEM_PAGE_SIZE,
                                             a.addr)} })
           : a \in {addr_alloc_page(bits, 1)} })

memory_copy_uvm(bits, from) ==
    Only({ IF u.page_dir = 0
           THEN [bits |-> u.bits, cr3 |-> -1, dir |-> EmptyDir]
           ELSE copy_pages(u.bits, from, u.page_dir, EmptyDir, 0)
           : u \in {memory_create_uvm(bits)} })

\* tss_init of a task record: a descriptor, a kernel stack page and a page
\* directory
tss_init(task, bits, gdt) ==
    Only({
      IF g.sel < 0
      THEN [task |-> task, bits |-> bits, gdt |-> gdt, err |-> -1]
      ELSE Only({
             IF a.addr = 0
             THEN [task |-> [task EXCEPT !.cr3 = 0, !.esp0 = 0, !.eip = 0],
                   bits |-> a.bits, gdt |-> gdt_free_sel(g.gdt, g.sel),
                   err |-> -1]
             ELSE Only({
                    IF u.page_dir = 0
                    THEN [task |-> [task EXCEPT !.cr3 = 0, !.eip = 0,
                                      !.esp0 = a.addr + MEM_PAGE_SIZE],
                          bits |-> memory_free_page(u.bits, a.addr),
                          gdt |-> gdt_free_sel(g.gdt, g.sel), err |-> -1]
                    ELSE [task |-> [task EXCEPT !.cr3 = u.page_dir,
                                      !.page_dir = EmptyDir, !.eip = 0,
                                      !.esp0 = a.addr + MEM_PAGE_SIZE,
                                      !.tss_sel = g.sel],
                          bits |-> u.bits, gdt |-> g.gdt, err |-> 0]
                    : u \in {memory_create_uvm(a.bits)} })
             : a \in {memory_alloc_page(bits)} })
      : g \in {gdt_alloc_desc(gdt)} })

task_uninit(task, bits, gdt) ==
    [task |-> ZeroTask,
     gdt  |-> IF task.tss_sel # 0 THEN gdt_free_sel(gdt, task.tss_sel) ELSE gdt,
     bits |-> Only({ IF task.cr3 # 0
                     THEN memory_destroy_uvm(b, task.cr3, task.page_dir)
                     ELSE b
                     : b \in {IF task.esp0 # 0
                              THEN memory_free_page(bits,
                                                    task.esp0 - MEM_PAGE_SIZE)
                              ELSE bits} })]

----------------------------------------------------------------------------
(* Initial state: task_manager_init and task_first_init have run and       *)
(* move_to_first_task has dropped the CPU into the first task.              *)

NewTask(task, st) ==
    [ZeroTask EXCEPT !.state = st, !.name = 1, !.pid = task,
                     !.time_slice = TimeSlice, !.slice_ticks = TimeSlice]

NoLocal == [child |-> NoTask, move_child |-> 0, k |-> 0, blocked |-> 0,
            op |-> "none", ret |-> 0, status |-> 0]

\* the last operation on sem: its kind, the count before it, whether it left
\* the wait queue alone, and the count before the operation ahead of it when
\* the two make a wait/notify pair that touched no waiter (-1 otherwise)
NoOp == [op |-> "none", before |-> 0, alone |-> FALSE, pair |-> -1]

NoObs == [forked |-> [t \in Tasks |-> [by |-> NoTask, ret |-> 0]],
          need   |-> [t \in Tasks |-> 0],
          seen   |-> [t \in Tasks |-> 0],
          calls  |-> [t \in Tasks |-> 0],
          arrive |-> [o \in {"sem", "mutex"} |-> << >>],
          last   |-> NoOp]

Init ==
    /\ tasks = [t \in Tasks |->
                  IF t = idle_task THEN NewTask(t, TASK_CREATED)
                  ELSE IF t = first_task
                  THEN [NewTask(t, TASK_READY) EXCEPT
                          !.heap_start = MEM_PAGE_SIZE,
                          !.heap_end = MEM_PAGE_SIZE,
                          !.page_dir = ImageDir]
                  ELSE ZeroTask]
    /\ curr_task = first_task
    /\ ready_list = [first |-> first_task, last |-> first_task, count |-> 1]
    /\ sleep_list = EmptyList
    /\ task_table_mutex = NewMutex
    /\ mutex = NewMutex
    /\ sem = NewSem(0)
    /\ pc = [t \in Tasks |-> IF t = first_task THEN "user"
                             ELSE IF t = idle_task THEN "idle" ELSE "none"]
    /\ local = [t \in Tasks |-> NoLocal]
    /\ obs = NoObs
    /\ paddr_alloc = ImageBitmap
    /\ gdt_table = BootGdt
    /\ tty = NewTty
    /\ kernel_pages = {}
    /\ task_list = BootTaskList(tasks)
    /\ eflags = EFLAGS_IF
    /\ kmutex = [m \in KMutexes |-> NewMutex]

Commit(K) ==
    /\ tasks' = K.T
    /\ ready_list' = K.ready
    /\ sleep_list' = K.sleep
    /\ curr_task' = K.curr

\* a task runs its own code only while it is the current task
Runs(t, at) == curr_task = t /\ pc[t] = at

\* every gate of the IDT is an interrupt gate: a handler runs with interrupts
\* off until it returns, a timer tick included
IrqOnInHandlers == curr_task # NoTask /\ pc[curr_task] # "mlock_ret"

\* interrupts are delivered unless the CPU is halted or the current task is
\* inside an interrupts-off section that spans two actions: the return of
\* mutex_lock, or an exception handler, entered through an interrupt gate
IrqOn ==
    /\ curr_task # NoTask
    /\ pc[curr_task] \notin {"mlock_ret", "halted"}
    /\ local[curr_task].op # "exception"

----------------------------------------------------------------------------
(* Interrupts and the system calls that are one interrupts-off section *)

\* do_handler_timer -> task_time_tick
Tick ==
    /\ IrqOn
    /\ \E K \in {task_time_tick(Sched)} :
           /\ Commit(K)
           /\ obs' = [obs EXCEPT !.seen =
                        [t \in Tasks |->
                           IF local[t].op = "msleep"
                              /\ t \notin ListSet(tasks, ready_list, "run_node")
                              /\ obs.seen[t] <= obs.need[t]
                           THEN obs.seen[t] + 1 ELSE obs.seen[t]]]
    /\ UNCHANGED << kmutex, eflags, task_list, tty, gdt_table, paddr_alloc, kernel_pages, task_table_mutex, mutex, sem, pc, local >>

\* what a task forgets when it enters its next system call
Enter(t) ==
    /\ local' = [local EXCEPT ![t] = NoLocal]
    /\ obs' = [obs EXCEPT !.need[t] = 0, !.seen[t] = 0]

Yield ==
    \E t \in Tasks :
        /\ Runs(t, "user")
        /\ Commit(sys_yield(Sched))
        /\ Enter(t)
        /\ UNCHANGED << kmutex, eflags, task_list, tty, gdt_table, paddr_alloc, kernel_pages, task_table_mutex, mutex, sem, pc >>

\* max(1, ceil(ms / OS_TICK_MS)), the ticks a sleep of ms must last
TicksFor(ms) ==
    LET c == (ms \div OS_TICK_MS) + (IF ms % OS_TICK_MS = 0 THEN 0 ELSE 1)
    IN  IF c < 1 THEN 1 ELSE c

Msleep ==
    \E t \in Tasks, ms \in MsValues :
        /\ Runs(t, "user")
        /\ Commit(sys_msleep(Sched, ms))
        /\ local' = [local EXCEPT ![t] = [NoLocal EXCEPT !.op = "msleep"]]
        /\ obs' = [obs EXCEPT !.need[t] = TicksFor(ms), !.seen[t] = 0]
        /\ UNCHANGED << kmutex, eflags, task_list, tty, gdt_table, paddr_alloc, kernel_pages, task_table_mutex, mutex, sem, pc >>

----------------------------------------------------------------------------
(* sys_fork, sys_wait and sys_exit.  Each takes task_table_mutex, works on  *)
(* the task table with interrupts on, and can be preempted between steps.   *)

Min(S) == CHOOSE x \in S : \A y \in S : x <= y

\* mutex_lock(&task_table_mutex) as the first step of a call, then at
ttm_lock(t, at) ==
    LET r == mutex_lock(Sched, task_table_mutex)
    IN  /\ Commit(r.K)
        /\ task_table_mutex' = r.M
        /\ pc' = [pc EXCEPT ![t] = at]

\* sys_fork: alloc_task up to the mutex_lock
ForkLock ==
    \E t \in Tasks :
        /\ Runs(t, "user")
        /\ Cardinality({i \in task_table : tasks[i].name # 0}) < MaxLive
        /\ ttm_lock(t, "fork_scan")
        /\ Enter(t)
        /\ UNCHANGED << kmutex, eflags, task_list, tty, gdt_table, paddr_alloc, kernel_pages, mutex, sem >>

\* alloc_task: the scan for a slot whose name is empty, and mutex_unlock
ForkScan ==
    \E t \in Tasks :
        /\ Runs(t, "fork_scan")
        /\ LET free == {i \in task_table : tasks[i].name = 0}
               r == mutex_unlock(Sched, task_table_mutex)
           IN  /\ Commit(r.K)
               /\ task_table_mutex' = r.M
               /\ IF free = {}
                  THEN /\ pc' = [pc EXCEPT ![t] = "user"]
                       /\ local' = [local EXCEPT ![t].op = "fork", ![t].ret = -1]
                  ELSE /\ pc' = [pc EXCEPT ![t] = "fork_init"]
                       /\ local' = [local EXCEPT ![t].child = Min(free)]
        /\ UNCHANGED << kmutex, eflags, task_list, tty, gdt_table, paddr_alloc, kernel_pages, mutex, sem, obs >>

\* task_init of the child, the copy of the parent's registers into its TSS
\* with eax = 0, and child_task->parent = parent_task
task_init(T, task, name) ==
    [T EXCEPT ![task].name = name, ![task].state = TASK_CREATED,
              ![task].sleep_ticks = 0, ![task].time_slice = TimeSlice,
              ![task].slice_ticks = TimeSlice, ![task].parent = NoTask,
              ![task].run_node = NullNode, ![task].wait_node = NullNode,
              ![task].heap_start = VAddrZero, ![task].heap_end = VAddrZero,
              ![task].file_table = NoFiles, ![task].pid = task]

ForkInit ==
    \E t \in Tasks :
        /\ Runs(t, "fork_init")
        /\ LET child == local[t].child
           IN  /\ tasks' = [task_init(tasks, child, tasks[t].name)
                              EXCEPT ![child].parent = t]
               /\ pc' = [pc EXCEPT ![t] = "fork_start", ![child] = "user"]
               /\ local' = [local EXCEPT
                              ![child] = [NoLocal EXCEPT !.op = "fork", !.ret = 0]]
               /\ obs' = [obs EXCEPT !.need[child] = 0, !.seen[child] = 0]
        /\ UNCHANGED << kmutex, eflags, task_list, tty, gdt_table, paddr_alloc, kernel_pages, curr_task, ready_list, sleep_list, task_table_mutex,
                        mutex, sem >>

\* memory_copy_uvm, task_start(child_task) and return child_task->pid
ForkStart ==
    \E t \in Tasks :
        /\ Runs(t, "fork_start")
        /\ LET child == local[t].child
               K == task_set_ready(Sched, child)
           IN  /\ Commit(K)
               /\ local' = [local EXCEPT ![t].op = "fork", ![t].ret = K.T[child].pid]
               /\ obs' = [obs EXCEPT !.forked[child] =
                                       [by |-> t, ret |-> K.T[child].pid]]
        /\ pc' = [pc EXCEPT ![t] = "user"]
        /\ UNCHANGED << kmutex, eflags, task_list, tty, gdt_table, paddr_alloc, kernel_pages, task_table_mutex, mutex, sem >>

\* sys_wait: mutex_lock at the top of the for (;;) loop
WaitLock ==
    \E t \in Tasks :
        /\ Runs(t, "user") \/ Runs(t, "wait_lock")
        /\ ttm_lock(t, "wait_scan")
        /\ IF pc[t] = "user" THEN Enter(t) ELSE UNCHANGED << local, obs >>
        /\ UNCHANGED << kmutex, eflags, task_list, tty, gdt_table, paddr_alloc, kernel_pages, mutex, sem >>

\* the scan for a Zombie child; a find is reaped and returned
WaitScan ==
    \E t \in Tasks :
        /\ Runs(t, "wait_scan")
        /\ LET zs == {i \in task_table : tasks[i].parent = t
                                         /\ tasks[i].state = TASK_ZOMBIE}
               z  == Min(zs)
               K0 == IF zs = {} THEN Sched
                     ELSE [Sched EXCEPT !.T[z] = ZeroTask]
               r  == mutex_unlock(K0, task_table_mutex)
           IN  /\ Commit(r.K)
               /\ task_table_mutex' = r.M
               /\ IF zs = {}
                  THEN /\ pc' = [pc EXCEPT ![t] = "wait_block"]
                       /\ local' = local
                  ELSE /\ pc' = [pc EXCEPT ![t] = "user", ![z] = "none"]
                       /\ local' = [local EXCEPT
                                      ![t].op = "wait", ![t].ret = tasks[z].pid,
                                      ![t].status = tasks[z].status,
                                      ![t].child = z,
                                      ![z] = NoLocal]
        /\ UNCHANGED << kmutex, eflags, task_list, tty, gdt_table, paddr_alloc, kernel_pages, mutex, sem, obs >>

\* no Zombie child was found: block as TASK_WAITING and dispatch
WaitBlock ==
    \E t \in Tasks :
        /\ Runs(t, "wait_block")
        /\ LET K1 == task_set_block(Sched, t)
           IN  Commit(task_dispatch([K1 EXCEPT !.T[t].state = TASK_WAITING]))
        /\ pc' = [pc EXCEPT ![t] = "wait_lock"]
        /\ local' = [local EXCEPT ![t].blocked = 1]
        /\ UNCHANGED << kmutex, eflags, task_list, tty, gdt_table, paddr_alloc, kernel_pages, task_table_mutex, mutex, sem, obs >>

\* sys_exit(k) up to the mutex_lock; the first task never exits
ExitLock ==
    \E t \in task_table, k \in ExitCodes :
        /\ Runs(t, "user")
        /\ ttm_lock(t, "exit_scan")
        /\ local' = [local EXCEPT ![t] = [NoLocal EXCEPT !.k = k]]
        /\ obs' = [obs EXCEPT !.need[t] = 0, !.seen[t] = 0]
        /\ UNCHANGED << kmutex, eflags, task_list, tty, gdt_table, paddr_alloc, kernel_pages, mutex, sem >>

\* the children are handed to the first task
ExitScan ==
    \E t \in Tasks :
        /\ Runs(t, "exit_scan")
        /\ LET mine == {i \in task_table : tasks[i].parent = t}
               K0 == [Sched EXCEPT !.T = [i \in Tasks |->
                         IF i \in mine THEN [tasks[i] EXCEPT !.parent = first_task]
                         ELSE tasks[i]]]
               r  == mutex_unlock(K0, task_table_mutex)
           IN  /\ Commit(r.K)
               /\ task_table_mutex' = r.M
               /\ local' = [local EXCEPT ![t].move_child =
                              IF \E i \in mine : tasks[i].state = TASK_ZOMBIE
                              THEN 1 ELSE 0]
        /\ pc' = [pc EXCEPT ![t] = "exit_final"]
        /\ UNCHANGED << kmutex, eflags, task_list, tty, gdt_table, paddr_alloc, kernel_pages, mutex, sem, obs >>

\* an exit that leaves the caller on the ready list
sys_exit_final_still_ready(K, status, move_child) ==
    LET t      == K.curr
        parent == K.T[t].parent
        K1 == IF move_child = 1 /\ parent # first_task
                 /\ K.T[first_task].state = TASK_WAITING
              THEN task_set_ready(K, first_task) ELSE K
        K2 == IF parent # NoTask /\ K1.T[parent].state = TASK_WAITING
              THEN task_set_ready(K1, parent) ELSE K1
        K3 == [K2 EXCEPT !.T[t].status = status, !.T[t].state = TASK_ZOMBIE]
    IN  task_dispatch(K3)

\* an exit that does not store its status
sys_exit_final_unsaved(K, status, move_child) ==
    LET t      == K.curr
        parent == K.T[t].parent
        K1 == IF move_child = 1 /\ parent # first_task
                 /\ K.T[first_task].state = TASK_WAITING
              THEN task_set_ready(K, first_task) ELSE K
        K2 == IF parent # NoTask /\ K1.T[parent].state = TASK_WAITING
              THEN task_set_ready(K1, parent) ELSE K1
        K3 == [K2 EXCEPT !.T[t].state = TASK_ZOMBIE]
    IN  task_dispatch(task_set_block(K3, t))

\* sys_exit from irq_enter_protection on: wake the waiting parent, store
\* the status, become Zombie, dispatch
sys_exit_final(K, status, move_child) ==
    LET t      == K.curr
        parent == K.T[t].parent
        K1 == IF move_child = 1 /\ parent # first_task
                 /\ K.T[first_task].state = TASK_WAITING
              THEN task_set_ready(K, first_task) ELSE K
        K2 == IF parent # NoTask /\ K1.T[parent].state = TASK_WAITING
              THEN task_set_ready(K1, parent) ELSE K1
        K3 == [K2 EXCEPT !.T[t].status = status, !.T[t].state = TASK_ZOMBIE]
    IN  task_dispatch(task_set_block(K3, t))

ExitFinal ==
    \E t \in Tasks :
        /\ Runs(t, "exit_final")
        /\ Commit(sys_exit_final(Sched, local[t].k, local[t].move_child))
        /\ pc' = [pc EXCEPT ![t] = "zombie"]
        /\ UNCHANGED << kmutex, eflags, task_list, tty, gdt_table, paddr_alloc, kernel_pages, task_table_mutex, mutex, sem, local, obs >>

Next ==
    \/ Tick
    \/ Yield
    \/ Msleep
    \/ ForkLock
    \/ ForkScan
    \/ ForkInit
    \/ ForkStart
    \/ WaitLock
    \/ WaitScan
    \/ WaitBlock
    \/ ExitLock
    \/ ExitScan
    \/ ExitFinal

Spec == Init /\ [][Next]_vars

----------------------------------------------------------------------------
(* CPU exceptions: do_default_handler and do_handler_page_fault *)

\* the error codes the CPU pushes: a user-mode read and a user-mode write of
\* a page that is not present
ErrCodes == {4, 6}

\* frame->cs & 0x3 is 3: the task was in user mode and the handler calls
\* sys_exit(frame->error_code), here up to its mutex_lock
UserException ==
    \E t \in task_table, e \in ErrCodes :
        /\ Runs(t, "user")
        /\ ttm_lock(t, "exit_scan")
        /\ local' = [local EXCEPT ![t] = [NoLocal EXCEPT !.k = e,
                                                          !.op = "exception"]]
        /\ obs' = [obs EXCEPT !.need[t] = 0, !.seen[t] = 0]
        /\ UNCHANGED << kmutex, eflags, task_list, tty, gdt_table, paddr_alloc, kernel_pages, mutex, sem >>

\* frame->cs & 0x3 is 0: the task was in the kernel (the idle task always
\* is) and the handler executes hlt for ever with interrupts off
KernelException ==
    \E t \in Tasks :
        /\ curr_task = t
        /\ pc[t] \notin {"user", "halted", "mlock_ret"}
        /\ local[t].op # "exception"
        /\ pc' = [pc EXCEPT ![t] = "halted"]
        /\ UNCHANGED << kmutex, eflags, task_list, tty, tasks, curr_task, ready_list, sleep_list,
                        task_table_mutex, mutex, sem, local, obs, gdt_table,
                        paddr_alloc, kernel_pages >>

NextExc ==
    \/ Tick
    \/ Yield
    \/ ForkLock
    \/ ForkScan
    \/ ForkInit
    \/ ForkStart
    \/ WaitLock
    \/ WaitScan
    \/ WaitBlock
    \/ ExitLock
    \/ ExitScan
    \/ ExitFinal
    \/ UserException
    \/ KernelException

SpecExc == Init /\ [][NextExc]_vars

----------------------------------------------------------------------------
(* Kernel code that locks mutex, waits on sem and signals sem, run by the   *)
(* first task and its children once every slot of task_table[] is forked.   *)

InitIpc ==
    /\ tasks = [t \in Tasks |->
                  IF t = idle_task THEN NewTask(t, TASK_CREATED)
                  ELSE IF t = first_task
                  THEN [NewTask(t, TASK_READY) EXCEPT
                          !.run_node = [pre |-> NoTask, next |-> t + 1]]
                  ELSE [NewTask(t, TASK_READY) EXCEPT
                          !.parent = first_task,
                          !.run_node =
                             [pre |-> t - 1,
                              next |-> IF t = 2 + MaxTasks THEN NoTask ELSE t + 1]]]
    /\ curr_task = first_task
    /\ ready_list = [first |-> first_task, last |-> 2 + MaxTasks,
                     count |-> 1 + MaxTasks]
    /\ sleep_list = EmptyList
    /\ task_table_mutex = NewMutex
    /\ mutex = NewMutex
    /\ sem = NewSem(0)
    /\ pc = [t \in Tasks |-> IF t = idle_task THEN "idle" ELSE "user"]
    /\ local = [t \in Tasks |->
                  IF t = idle_task THEN NoLocal
                  ELSE IF t = first_task
                  THEN [NoLocal EXCEPT !.op = "fork", !.ret = 2 + MaxTasks,
                                       !.child = 2 + MaxTasks]
                  ELSE [NoLocal EXCEPT !.op = "fork"]]
    /\ obs = [NoObs EXCEPT !.forked = [t \in Tasks |->
                 IF t \in task_table THEN [by |-> first_task, ret |-> t]
                 ELSE [by |-> NoTask, ret |-> 0]]]
    /\ paddr_alloc = ImageBitmap
    /\ gdt_table = BootGdt
    /\ tty = NewTty
    /\ kernel_pages = {}
    /\ task_list = BootTaskList(tasks)
    /\ eflags = EFLAGS_IF
    /\ kmutex = [m \in KMutexes |-> NewMutex]

Append1(q, blocked, t) == IF blocked THEN Append(q, t) ELSE q
Without(q, t) == SelectSeq(q, LAMBDA x : x # t)

\* mutex_lock(&mutex) up to irq_leave_protection: at once, or when the task
\* runs again after it blocked
MutexLock ==
    \E t \in Tasks :
        /\ Runs(t, "user")
        /\ obs.calls[t] < MaxLock
        /\ LET r == mutex_lock(Sched, mutex)
           IN  /\ Commit(r.K)
               /\ mutex' = r.M
               /\ obs' = [obs EXCEPT !.need[t] = 0, !.seen[t] = 0,
                                     !.calls[t] = @ + 1,
                                     !.arrive["mutex"] = Append1(@, r.blocked, t)]
               /\ local' = [local EXCEPT ![t] =
                              [NoLocal EXCEPT !.blocked = IF r.blocked THEN 1 ELSE 0]]
        /\ pc' = [pc EXCEPT ![t] = "mlock_ret"]
        /\ UNCHANGED << kmutex, eflags, task_list, tty, gdt_table, paddr_alloc, kernel_pages, task_table_mutex, sem >>

\* irq_leave_protection and the return of mutex_lock
MutexLockRet ==
    \E t \in Tasks :
        /\ Runs(t, "mlock_ret")
        /\ pc' = [pc EXCEPT ![t] = "user"]
        /\ UNCHANGED << kmutex, eflags, task_list, tty, gdt_table, paddr_alloc, kernel_pages, tasks, curr_task, ready_list, sleep_list,
                        task_table_mutex, mutex, sem, local, obs >>

MutexUnlock ==
    \E t \in Tasks :
        /\ Runs(t, "user")
        /\ LET r == mutex_unlock(Sched, mutex)
           IN  /\ Commit(r.K)
               /\ mutex' = r.M
               /\ obs' = [obs EXCEPT !.need[t] = 0, !.seen[t] = 0,
                                     !.calls[t] = IF mutex.owner = t
                                                  THEN @ - 1 ELSE @,
                                     !.arrive["mutex"] = Without(@, r.woke)]
        /\ local' = [local EXCEPT ![t] = NoLocal]
        /\ UNCHANGED << kmutex, eflags, task_list, tty, gdt_table, paddr_alloc, kernel_pages, task_table_mutex, sem, pc >>

\* the last-operation record after an operation of kind op
NextOp(op, other, alone) ==
    [op |-> op, before |-> sem.count, alone |-> alone,
     pair |-> IF alone /\ obs.last.op = other /\ obs.last.alone
              THEN obs.last.before ELSE -1]

\* sem_wait(&sem) by a task, as tty_read does
SemWait ==
    \E t \in Tasks :
        /\ Runs(t, "user")
        /\ LET r == sem_wait(Sched, sem)
           IN  /\ Commit(r.K)
               /\ sem' = r.S
               /\ obs' = [obs EXCEPT !.need[t] = 0, !.seen[t] = 0,
                                     !.arrive["sem"] = Append1(@, r.blocked, t),
                                     !.last = NextOp("wait", "notify", ~r.blocked)]
        /\ local' = [local EXCEPT ![t] = NoLocal]
        /\ UNCHANGED << kmutex, eflags, task_list, tty, gdt_table, paddr_alloc, kernel_pages, task_table_mutex, mutex, pc >>

\* sem_notify(&sem) from an interrupt handler, as tty_in does
SemNotify ==
    /\ IrqOn
    /\ sem.count < SemCap
    /\ LET r == sem_notify(Sched, sem)
       IN  /\ Commit(r.K)
           /\ sem' = r.S
           /\ obs' = [obs EXCEPT !.arrive["sem"] = Without(@, r.woke),
                                 !.last = NextOp("notify", "wait", r.woke = NoTask)]
    /\ UNCHANGED << kmutex, eflags, task_list, tty, gdt_table, paddr_alloc, kernel_pages, task_table_mutex, mutex, pc, local >>

NextIpc ==
    \/ Tick
    \/ Yield
    \/ MutexLock
    \/ MutexLockRet
    \/ MutexUnlock
    \/ SemWait
    \/ SemNotify

SpecIpc == InitIpc /\ [][NextIpc]_vars

\* the same tasks, sleeping and yielding
NextSleep ==
    \/ Tick
    \/ Yield
    \/ Msleep

SpecSleep == InitIpc /\ [][NextSleep]_vars

\* sys_msleep of at most one tick
MsleepTick ==
    /\ Msleep
    /\ obs'.need[curr_task] <= 1

\* do_handler_timer -> task_time_tick, measured for the tasks that are on
\* the ready list without running: obs.seen[t] is the number of ticks t has
\* waited since it last ran or joined the list, obs.need[t] the length of the
\* ready list at the first of those ticks
TickWaiting ==
    /\ IrqOn
    /\ \E K \in {task_time_tick(Sched)} :
           /\ Commit(K)
           /\ \E waits \in {{t \in Tasks :
                               /\ t \in ListSet(tasks, ready_list, "run_node")
                               /\ t # curr_task /\ t # K.curr}} :
                  obs' = [obs EXCEPT
                            !.seen = [t \in Tasks |->
                                        IF t \in waits THEN obs.seen[t] + 1
                                        ELSE 0],
                            !.need = [t \in Tasks |->
                                        IF t \in waits /\ obs.seen[t] = 0
                                        THEN ready_list.count
                                        ELSE obs.need[t]]]
    /\ UNCHANGED << kmutex, eflags, task_list, tty, gdt_table, paddr_alloc, kernel_pages,
                    task_table_mutex, mutex, sem, pc, local >>

\* the tasks sleep and yield while the timer ticks for ever
NextRR ==
    \/ TickWaiting
    \/ Yield
    \/ MsleepTick

SpecRR == InitIpc /\ [][NextRR]_vars /\ WF_vars(TickWaiting)

----------------------------------------------------------------------------
(* gdt_alloc_desc and gdt_free_sel called by the same tasks, each holding   *)
(* at most one descriptor at a time, with timer ticks between the steps.    *)

\* gdt_alloc_desc up to its mutex_lock(&mutex)
GdtAllocLock ==
    \E t \in Tasks :
        /\ Runs(t, "user") /\ local[t].op # "holds"
        /\ \E r \in {mutex_lock(Sched, mutex)} :
               /\ Commit(r.K)
               /\ mutex' = r.M
        /\ pc' = [pc EXCEPT ![t] = "gdt_find"]
        /\ local' = [local EXCEPT ![t] = [NoLocal EXCEPT !.op = "gdt_alloc"]]
        /\ UNCHANGED << kmutex, eflags, task_list, tty, task_table_mutex, sem, obs, gdt_table,
                        paddr_alloc, kernel_pages >>

\* the for loop up to the test desc->attr == 0: i is the first free index,
\* or GDT_TABLE_SIZE when the loop runs out
GdtFind ==
    \E t \in Tasks :
        /\ Runs(t, "gdt_find")
        /\ \E r \in {gdt_alloc_desc(gdt_table)} :
               local' = [local EXCEPT ![t].k = IF r.sel < 0 THEN GdtSize
                                               ELSE r.sel \div DescSize]
        /\ pc' = [pc EXCEPT ![t] = "gdt_mark"]
        /\ UNCHANGED << kmutex, eflags, task_list, tty, tasks, curr_task, ready_list, sleep_list,
                        task_table_mutex, mutex, sem, obs, gdt_table,
                        paddr_alloc, kernel_pages >>

\* desc->attr = SEG_P_PRESENT, mutex_unlock and the return of the selector
GdtMark ==
    \E t \in Tasks :
        /\ Runs(t, "gdt_mark")
        /\ gdt_table' = IF local[t].k >= GdtSize THEN gdt_table
                        ELSE [gdt_table EXCEPT ![local[t].k] = 1]
        /\ \E r \in {mutex_unlock(Sched, mutex)} :
               /\ Commit(r.K)
               /\ mutex' = r.M
        /\ pc' = [pc EXCEPT ![t] = "user"]
        /\ local' = [local EXCEPT
                       ![t].op = IF local[t].k >= GdtSize THEN "gdt_full"
                                 ELSE "holds",
                       ![t].ret = IF local[t].k >= GdtSize THEN -1
                                  ELSE local[t].k * DescSize]
        /\ UNCHANGED << kmutex, eflags, task_list, tty, task_table_mutex, sem, obs, paddr_alloc,
                        kernel_pages >>

\* gdt_free_sel(sel) of the selector the task holds, up to its mutex_lock
GdtFreeLock ==
    \E t \in Tasks :
        /\ Runs(t, "user") /\ local[t].op = "holds"
        /\ \E r \in {mutex_lock(Sched, mutex)} :
               /\ Commit(r.K)
               /\ mutex' = r.M
        /\ pc' = [pc EXCEPT ![t] = "gdt_clear"]
        /\ local' = [local EXCEPT ![t].op = "gdt_free"]
        /\ UNCHANGED << kmutex, eflags, task_list, tty, task_table_mutex, sem, obs, gdt_table,
                        paddr_alloc, kernel_pages >>

\* gdt_table[sel / sizeof(segment_desc_t)].attr = 0 and mutex_unlock
GdtClear ==
    \E t \in Tasks :
        /\ Runs(t, "gdt_clear")
        /\ gdt_table' = gdt_free_sel(gdt_table, local[t].ret)
        /\ \E r \in {mutex_unlock(Sched, mutex)} :
               /\ Commit(r.K)
               /\ mutex' = r.M
        /\ pc' = [pc EXCEPT ![t] = "user"]
        /\ local' = [local EXCEPT ![t].op = "freed"]
        /\ UNCHANGED << kmutex, eflags, task_list, tty, task_table_mutex, sem, obs, paddr_alloc,
                        kernel_pages >>

NextGdt ==
    \/ Tick
    \/ GdtAllocLock
    \/ GdtFind
    \/ GdtMark
    \/ GdtFreeLock
    \/ GdtClear

SpecGdt == InitIpc /\ [][NextGdt]_vars

\* the same tasks, locking, waiting, signalling and sleeping
NextSched ==
    \/ Tick
    \/ MsleepTick
    \/ MutexLock
    \/ MutexLockRet
    \/ MutexUnlock
    \/ SemWait
    \/ SemNotify

SpecSched == InitIpc /\ [][NextSched]_vars

----------------------------------------------------------------------------
(* A task that has loaded a program grows its heap while kernel code takes  *)
(* and returns pages of its own.                                            *)

InitMem ==
    /\ \E h \in HeapStarts :
         tasks = [t \in Tasks |->
                    IF t = idle_task THEN NewTask(t, TASK_CREATED)
                    ELSE IF t = first_task
                    THEN [NewTask(t, TASK_READY) EXCEPT
                            !.heap_start = h, !.heap_end = h,
                            !.page_dir = ImageDir]
                    ELSE ZeroTask]
    /\ curr_task = first_task
    /\ ready_list = [first |-> first_task, last |-> first_task, count |-> 1]
    /\ sleep_list = EmptyList
    /\ task_table_mutex = NewMutex
    /\ mutex = NewMutex
    /\ sem = NewSem(0)
    /\ pc = [t \in Tasks |-> IF t = first_task THEN "user"
                             ELSE IF t = idle_task THEN "idle" ELSE "none"]
    /\ local = [t \in Tasks |-> NoLocal]
    /\ obs = NoObs
    /\ paddr_alloc = ImageBitmap
    /\ gdt_table = BootGdt
    /\ tty = NewTty
    /\ kernel_pages = {}
    /\ task_list = BootTaskList(tasks)
    /\ eflags = EFLAGS_IF
    /\ kmutex = [m \in KMutexes |-> NewMutex]

\* sys_sbrk(incr)
Sbrk ==
    \E t \in Tasks, incr \in Incrs :
        /\ Runs(t, "user")
        /\ \E r \in {sys_sbrk(tasks[t], paddr_alloc, incr)} :
               /\ tasks' = [tasks EXCEPT ![t].heap_end = r.heap_end,
                                         ![t].page_dir = r.dir]
               /\ paddr_alloc' = r.bits
               /\ pc' = [pc EXCEPT ![t] = IF r.panic THEN "panic" ELSE "user"]
               /\ local' = [local EXCEPT ![t] =
                              [NoLocal EXCEPT !.op = "sbrk", !.k = incr,
                                              !.ret = r.ret]]
        /\ UNCHANGED << kmutex, eflags, task_list, tty, curr_task, ready_list, sleep_list, task_table_mutex,
                        mutex, sem, obs, kernel_pages, gdt_table >>

\* memory_alloc_page by kernel code
KernelAlloc ==
    \E t \in Tasks :
        /\ Runs(t, "user")
        /\ \E a \in {addr_alloc_page(paddr_alloc, 1)} :
               /\ paddr_alloc' = a.bits
               /\ kernel_pages' = IF a.addr = 0 THEN kernel_pages
                                  ELSE kernel_pages \cup {a.addr}
        /\ local' = [local EXCEPT ![t] = NoLocal]
        /\ UNCHANGED << kmutex, eflags, task_list, tty, tasks, curr_task, ready_list, sleep_list,
                        task_table_mutex, mutex, sem, pc, obs, gdt_table >>

\* memory_free_page of a kernel page
KernelFree ==
    \E t \in Tasks, addr \in kernel_pages :
        /\ Runs(t, "user")
        /\ paddr_alloc' = addr_free_page(
                            paddr_alloc,
                            (addr - MEM_EXT_START) \div MEM_PAGE_SIZE, 1)
        /\ kernel_pages' = kernel_pages \ {addr}
        /\ local' = [local EXCEPT ![t] = NoLocal]
        /\ UNCHANGED << kmutex, eflags, task_list, tty, tasks, curr_task, ready_list, sleep_list,
                        task_table_mutex, mutex, sem, pc, obs, gdt_table >>

NextMem ==
    \/ Sbrk
    \/ KernelAlloc
    \/ KernelFree

SpecMem == InitMem /\ [][NextMem]_vars

\* the CPU always takes the current task's next kernel step; what a task at
\* user level calls next, and when, is its own choice
KernelStep ==
    \/ ForkScan
    \/ ForkInit
    \/ ForkStart
    \/ WaitLock /\ \E t \in Tasks : Runs(t, "wait_lock")
    \/ WaitScan
    \/ WaitBlock
    \/ ExitScan
    \/ ExitFinal

\* the timer keeps interrupting while interrupts are delivered
SpecFair == Spec /\ WF_vars(KernelStep) /\ WF_vars(Tick)

----------------------------------------------------------------------------
(* fork, execve, sbrk, exit and wait with the descriptors and pages they    *)
(* take and give back.  Each call runs from entry to return with no         *)
(* preemption inside it.                                                    *)

\* the executable files: one that cannot be opened, one of one segment and
\* one of two segments whose second needs a second page table
ProgNone == [name |-> 2, opens |-> FALSE, entry |-> 0, segs |-> << >>]
ProgOne ==
    [name |-> 3, opens |-> TRUE, entry |-> 1,
     segs |-> << [p_vaddr |-> 0, p_memsz |-> MEM_PAGE_SIZE] >>]
ProgTwo ==
    [name |-> 4, opens |-> TRUE, entry |-> 2,
     segs |-> << [p_vaddr |-> 0, p_memsz |-> MEM_PAGE_SIZE],
                 [p_vaddr |-> PteCnt * MEM_PAGE_SIZE,
                  p_memsz |-> MEM_PAGE_SIZE \div 2] >>]
Progs == {ProgNone, ProgOne, ProgTwo}

\* MEM_TASK_STACK_TOP - MEM_TASK_STACK_SIZE: the user stack is the top page
\* of user space
StackBase == UserSpace - MEM_PAGE_SIZE

memory_get_paddr(dir, vaddr) ==
    IF dir[pde_index(vaddr)].present
    THEN dir[pde_index(vaddr)].pte[pte_index(vaddr)] + (vaddr % MEM_PAGE_SIZE)
    ELSE 0

\* the loop of load_elf_file over the program headers from header n on;
\* entry is 0 when the load failed.  load_phdr reads the file to the address
\* memory_get_paddr gives, mapped or not.
RECURSIVE load_segs(_, _, _, _, _)
load_segs(task, dir, bits, prog, n) ==
    IF n > Len(prog.segs)
    THEN [task |-> task, dir |-> dir, bits |-> bits, entry |-> prog.entry,
          panic |-> FALSE]
    ELSE Only({
           IF r.panic
           THEN [task |-> task, dir |-> r.dir, bits |-> r.bits, entry |-> 0,
                 panic |-> TRUE]
           ELSE IF r.ret < 0
           THEN [task |-> task, dir |-> r.dir, bits |-> r.bits, entry |-> 0,
                 panic |-> FALSE]
           ELSE load_segs([task EXCEPT
                             !.heap_start = Wrap(prog.segs[n].p_vaddr
                                                   + prog.segs[n].p_memsz),
                             !.heap_end = Wrap(prog.segs[n].p_vaddr
                                                 + prog.segs[n].p_memsz)],
                          r.dir, r.bits, prog, n + 1)
           : r \in {memory_alloc_for_page_dir(dir, bits, prog.segs[n].p_vaddr,
                                              prog.segs[n].p_memsz)} })

load_elf_file(task, dir, bits, prog) ==
    IF ~prog.opens
    THEN [task |-> task, dir |-> dir, bits |-> bits, entry |-> 0,
          panic |-> FALSE]
    ELSE load_segs(task, dir, bits, prog, 1)

\* exec_failed with a new directory: the old one is reinstalled and the new
\* one destroyed
exec_failed(task, old_page_dir, new_page_dir, dir, bits) ==
    [task |-> [task EXCEPT !.cr3 = old_page_dir],
     bits |-> memory_destroy_uvm(bits, new_page_dir, dir),
     ret |-> -1, panic |-> FALSE, created |-> TRUE]

\* sys_execve of the task with record task; created tells that
\* memory_create_uvm gave a new directory, panic that an ASSERT stopped the
\* kernel
sys_execve(task, bits, prog) ==
    Only({
      IF u.page_dir = 0
      THEN [task |-> t1, bits |-> u.bits, ret |-> -1, panic |-> FALSE,
            created |-> FALSE]
      ELSE Only({
        IF l.panic
        THEN [task |-> l.task, bits |-> l.bits, ret |-> 0, panic |-> TRUE,
              created |-> TRUE]
        ELSE IF l.entry = 0
        THEN exec_failed(l.task, task.cr3, u.page_dir, l.dir, l.bits)
        ELSE Only({
          IF k.panic
          THEN [task |-> l.task, bits |-> k.bits, ret |-> 0, panic |-> TRUE,
                created |-> TRUE]
          ELSE IF k.ret < 0
          THEN exec_failed(l.task, task.cr3, u.page_dir, k.dir, k.bits)
          ELSE IF memory_get_paddr(k.dir, StackBase) = 0
          THEN [task |-> l.task, bits |-> k.bits, ret |-> 0, panic |-> TRUE,
                created |-> TRUE]
          ELSE [task |-> [l.task EXCEPT !.eip = l.entry, !.cr3 = u.page_dir,
                                        !.page_dir = k.dir],
                bits |-> memory_destroy_uvm(k.bits, task.cr3, task.page_dir),
                ret |-> 0, panic |-> FALSE, created |-> TRUE]
          : k \in {memory_alloc_for_page_dir(l.dir, l.bits, StackBase,
                                             MEM_PAGE_SIZE)} })
        : l \in {load_elf_file(t1, EmptyDir, u.bits, prog)} })
      : u \in {memory_create_uvm(bits)}, t1 \in {[task EXCEPT !.name = prog.name]} })

\* sys_fork from entry to return: alloc_task, task_init with its tss_init,
\* copy_opened_files, memory_copy_uvm and task_start.  The test
\* (child_task->tss.cr3 = memory_copy_uvm(...)) < 0 compares a uint32_t and
\* never holds.
sys_fork(K, bits, gdt) ==
    LET parent == K.curr
        free == {i \in task_table : K.T[i].name = 0}
    IN  IF free = {}
        THEN [K |-> K, bits |-> bits, gdt |-> gdt, ret |-> -1, child |-> NoTask]
        ELSE Only({
          IF i.err < 0
          THEN Only({ [K |-> [K EXCEPT !.T[child] = u.task], bits |-> u.bits,
                       gdt |-> u.gdt, ret |-> -1, child |-> child]
                      : u \in {task_uninit(i.task, i.bits, i.gdt)} })
          ELSE Only({
                 [K |-> task_set_ready(
                          [K EXCEPT !.T =
                             [task_init([K.T EXCEPT ![child] = i.task], child,
                                        K.T[parent].name)
                                EXCEPT ![child].file_table = K.T[parent].file_table,
                                       ![child].eip = K.T[parent].eip,
                                       ![child].parent = parent,
                                       ![child].cr3 = c.cr3,
                                       ![child].page_dir = c.dir]],
                          child),
                  bits |-> c.bits, gdt |-> i.gdt, ret |-> child, child |-> child]
                 : c \in {memory_copy_uvm(i.bits, K.T[parent].page_dir)} })
          : i \in {tss_init(K.T[Min(free)], bits, gdt)},
            child \in {Min(free)} })

\* the physical address of page k of the allocator
PageAddr(k) == MEM_EXT_START + k * MEM_PAGE_SIZE

\* the first task runs a program of one page; pages 0 to 3 are the kernel
\* stacks and the directories of the idle task and of the first task
ResDir ==
    [EmptyDir EXCEPT ![0] = [present |-> TRUE, paddr |-> PageAddr(5),
                             pte |-> [EmptyTable EXCEPT ![0] = PageAddr(4)]]]

InitRes ==
    /\ tasks = [t \in Tasks |->
                  IF t = idle_task
                  THEN [NewTask(t, TASK_CREATED) EXCEPT
                          !.tss_sel = (GdtBoot - 1) * DescSize,
                          !.esp0 = PageAddr(0) + MEM_PAGE_SIZE,
                          !.cr3 = PageAddr(1)]
                  ELSE IF t = first_task
                  THEN [NewTask(t, TASK_READY) EXCEPT
                          !.tss_sel = GdtBoot * DescSize,
                          !.esp0 = PageAddr(2) + MEM_PAGE_SIZE,
                          !.cr3 = PageAddr(3),
                          !.heap_start = MEM_PAGE_SIZE,
                          !.heap_end = MEM_PAGE_SIZE,
                          !.page_dir = ResDir]
                  ELSE ZeroTask]
    /\ curr_task = first_task
    /\ ready_list = [first |-> first_task, last |-> first_task, count |-> 1]
    /\ sleep_list = EmptyList
    /\ task_table_mutex = NewMutex
    /\ mutex = NewMutex
    /\ sem = NewSem(0)
    /\ pc = [t \in Tasks |-> IF t = first_task THEN "user"
                             ELSE IF t = idle_task THEN "idle" ELSE "none"]
    /\ local = [t \in Tasks |-> NoLocal]
    /\ obs = NoObs
    /\ paddr_alloc = [k \in 0 .. (ResPages - 1) |-> IF k <= 5 THEN 1 ELSE 0]
    /\ gdt_table = BootGdt
    /\ tty = NewTty
    /\ kernel_pages = {}
    /\ task_list = BootTaskList(tasks)
    /\ eflags = EFLAGS_IF
    /\ kmutex = [m \in KMutexes |-> NewMutex]

\* sys_fork(); a child whose cr3 is (uint32_t)-1 faults when it first runs
ResFork ==
    \E t \in Tasks :
        /\ Runs(t, "user")
        /\ \E r \in {sys_fork(Sched, paddr_alloc, gdt_table)} :
               /\ Commit(r.K)
               /\ paddr_alloc' = r.bits
               /\ gdt_table' = r.gdt
               /\ pc' = IF r.ret < 0 THEN pc
                        ELSE [pc EXCEPT ![r.child] =
                                IF r.K.T[r.child].cr3 = -1 THEN "fault"
                                ELSE "user"]
               /\ local' = [local EXCEPT
                              ![t] = [NoLocal EXCEPT !.op = "fork",
                                                     !.ret = r.ret,
                                                     !.child = r.child]]
        /\ UNCHANGED << kmutex, eflags, task_list, tty, task_table_mutex, mutex, sem, obs, kernel_pages >>

\* the task switch loads a cr3 that is no page directory: the CPU faults
\* with no handler it can reach and stops
Fault ==
    \E t \in Tasks :
        /\ Runs(t, "fault")
        /\ curr_task' = NoTask
        /\ UNCHANGED << kmutex, eflags, task_list, tty, tasks, ready_list, sleep_list, task_table_mutex, mutex,
                        sem, pc, local, obs, gdt_table, paddr_alloc,
                        kernel_pages >>

\* sys_execve(name, argv, env) of one of the files
ResExecve ==
    \E t \in Tasks, prog \in Progs :
        /\ Runs(t, "user")
        /\ \E r \in {sys_execve(tasks[t], paddr_alloc, prog)} :
               /\ tasks' = [tasks EXCEPT ![t] = r.task]
               /\ paddr_alloc' = r.bits
               /\ pc' = [pc EXCEPT ![t] = IF r.panic THEN "panic" ELSE "user"]
               /\ local' = [local EXCEPT
                              ![t] = [NoLocal EXCEPT
                                        !.op = "execve", !.ret = r.ret,
                                        !.k = prog.name,
                                        !.status = IF r.created THEN 1 ELSE 0]]
        /\ UNCHANGED << kmutex, eflags, task_list, tty, curr_task, ready_list, sleep_list, task_table_mutex,
                        mutex, sem, obs, gdt_table, kernel_pages >>

\* sys_exit(k) from entry to the dispatch: the files are closed and the
\* children handed to the first task
ResExit ==
    \E t \in task_table, k \in ExitCodes :
        /\ Runs(t, "user")
        /\ LET mine == {i \in task_table : tasks[i].parent = t}
               K0 == [Sched EXCEPT !.T = [i \in Tasks |->
                         IF i \in mine THEN [tasks[i] EXCEPT !.parent = first_task]
                         ELSE IF i = t THEN [tasks[i] EXCEPT !.file_table = NoFiles]
                         ELSE tasks[i]]]
           IN  Commit(sys_exit_final(K0, k,
                        IF \E i \in mine : tasks[i].state = TASK_ZOMBIE
                        THEN 1 ELSE 0))
        /\ pc' = [pc EXCEPT ![t] = "zombie"]
        /\ local' = [local EXCEPT ![t] =
                       [NoLocal EXCEPT
                          !.k = k,
                          !.move_child =
                             IF \E i \in task_table :
                                   /\ tasks[i].parent = t
                                   /\ tasks[i].state = TASK_ZOMBIE
                             THEN 1 ELSE 0]]
        /\ UNCHANGED << kmutex, eflags, task_list, tty, task_table_mutex, mutex, sem, obs, gdt_table,
                        paddr_alloc, kernel_pages >>

\* sys_wait: one pass of its for (;;) loop.  A Zombie child is reaped by
\* memory_destroy_uvm, memory_free_page of its kernel stack and kernel_memset;
\* with none the task blocks as TASK_WAITING.
ResWait ==
    \E t \in Tasks :
        /\ Runs(t, "user") \/ Runs(t, "wait_lock")
        /\ LET zs == {i \in task_table : tasks[i].parent = t
                                         /\ tasks[i].state = TASK_ZOMBIE}
           IN  IF zs = {}
               THEN /\ Commit(task_dispatch(
                         [task_set_block(Sched, t) EXCEPT
                            !.T[t].state = TASK_WAITING]))
                    /\ pc' = [pc EXCEPT ![t] = "wait_lock"]
                    /\ local' = [local EXCEPT ![t] =
                                   IF pc[t] = "user"
                                   THEN [NoLocal EXCEPT !.blocked = 1]
                                   ELSE local[t]]
                    /\ UNCHANGED paddr_alloc
               ELSE \E z \in {Min(zs)} :
                    /\ tasks' = [tasks EXCEPT ![z] = ZeroTask]
                    /\ paddr_alloc' =
                         memory_free_page(
                           memory_destroy_uvm(paddr_alloc, tasks[z].cr3,
                                              tasks[z].page_dir),
                           tasks[z].esp0 - MEM_PAGE_SIZE)
                    /\ pc' = [pc EXCEPT ![t] = "user", ![z] = "none"]
                    /\ local' = [local EXCEPT
                                   ![t] = [NoLocal EXCEPT
                                             !.op = "wait",
                                             !.ret = tasks[z].pid,
                                             !.status = tasks[z].status,
                                             !.child = z,
                                             !.blocked =
                                                IF pc[t] = "user" THEN 0
                                                ELSE local[t].blocked],
                                   ![z] = NoLocal]
                    /\ UNCHANGED << curr_task, ready_list, sleep_list >>
        /\ UNCHANGED << kmutex, eflags, task_list, tty, task_table_mutex, mutex, sem, obs, gdt_table,
                        kernel_pages >>

NextRes ==
    \/ ResFork
    \/ Fault
    \/ ResExecve
    \/ ResExit
    \/ ResWait
    \/ Yield
    \/ KernelAlloc
    \/ KernelFree

SpecRes == InitRes /\ [][NextRes]_vars

----------------------------------------------------------------------------
(* fork, exit and wait with the list of all tasks.  Its count only grows,   *)
(* so fork is offered while it is below MaxLinks.                           *)

\* sys_fork(), with what task_init and task_uninit do to the list
AllFork ==
    \E t \in Tasks :
        /\ Runs(t, "user")
        /\ task_list.count < MaxLinks
        /\ \E r \in {sys_fork(Sched, paddr_alloc, gdt_table)} :
               /\ Commit(r.K)
               /\ paddr_alloc' = r.bits
               /\ gdt_table' = r.gdt
               /\ pc' = IF r.ret < 0 THEN pc
                        ELSE [pc EXCEPT ![r.child] =
                                IF r.K.T[r.child].cr3 = -1 THEN "fault"
                                ELSE "user"]
               /\ local' = [local EXCEPT
                              ![t] = [NoLocal EXCEPT !.op = "fork",
                                                     !.ret = r.ret,
                                                     !.child = r.child]]
               /\ task_list' = IF r.child = NoTask THEN task_list
                               ELSE IF r.ret < 0
                               THEN task_list_memset(task_list, r.child)
                               ELSE task_list_insert(task_list, r.child)
        /\ UNCHANGED << kmutex, eflags, tty, task_table_mutex, mutex, sem, obs, kernel_pages >>

\* sys_wait: one pass of its loop; the reap zeroes the child's task_t
AllWait ==
    \E t \in Tasks :
        /\ Runs(t, "user") \/ Runs(t, "wait_lock")
        /\ LET zs == {i \in task_table : tasks[i].parent = t
                                         /\ tasks[i].state = TASK_ZOMBIE}
           IN  IF zs = {}
               THEN /\ Commit(task_dispatch(
                         [task_set_block(Sched, t) EXCEPT
                            !.T[t].state = TASK_WAITING]))
                    /\ pc' = [pc EXCEPT ![t] = "wait_lock"]
                    /\ local' = [local EXCEPT ![t] =
                                   IF pc[t] = "user"
                                   THEN [NoLocal EXCEPT !.blocked = 1]
                                   ELSE local[t]]
                    /\ UNCHANGED << paddr_alloc, task_list >>
               ELSE \E z \in {Min(zs)} :
                    /\ tasks' = [tasks EXCEPT ![z] = ZeroTask]
                    /\ task_list' = task_list_memset(task_list, z)
                    /\ paddr_alloc' =
                         memory_free_page(
                           memory_destroy_uvm(paddr_alloc, tasks[z].cr3,
                                              tasks[z].page_dir),
                           tasks[z].esp0 - MEM_PAGE_SIZE)
                    /\ pc' = [pc EXCEPT ![t] = "user", ![z] = "none"]
                    /\ local' = [local EXCEPT
                                   ![t] = [NoLocal EXCEPT
                                             !.op = "wait",
                                             !.ret = tasks[z].pid,
                                             !.status = tasks[z].status,
                                             !.child = z,
                                             !.blocked =
                                                IF pc[t] = "user" THEN 0
                                                ELSE local[t].blocked],
                                   ![z] = NoLocal]
                    /\ UNCHANGED << curr_task, ready_list, sleep_list >>
        /\ UNCHANGED << kmutex, eflags, tty, task_table_mutex, mutex, sem, obs, gdt_table,
                        kernel_pages >>

NextAll ==
    \/ AllFork
    \/ Fault
    \/ ResExit
    \/ AllWait
    \/ Yield
    \/ KernelAlloc
    \/ KernelFree

SpecAll == InitRes /\ [][NextAll]_vars

----------------------------------------------------------------------------
(* The same start on a machine with twice the memory, so that a forked task *)
(* can fork in turn and exit while its child lives.                         *)

InitOrphan ==
    /\ tasks = [t \in Tasks |->
                  IF t = idle_task
                  THEN [NewTask(t, TASK_CREATED) EXCEPT
                          !.tss_sel = (GdtBoot - 1) * DescSize,
                          !.esp0 = PageAddr(0) + MEM_PAGE_SIZE,
                          !.cr3 = PageAddr(1)]
                  ELSE IF t = first_task
                  THEN [NewTask(t, TASK_READY) EXCEPT
                          !.tss_sel = GdtBoot * DescSize,
                          !.esp0 = PageAddr(2) + MEM_PAGE_SIZE,
                          !.cr3 = PageAddr(3),
                          !.heap_start = MEM_PAGE_SIZE,
                          !.heap_end = MEM_PAGE_SIZE,
                          !.page_dir = ResDir]
                  ELSE ZeroTask]
    /\ curr_task = first_task
    /\ ready_list = [first |-> first_task, last |-> first_task, count |-> 1]
    /\ sleep_list = EmptyList
    /\ task_table_mutex = NewMutex
    /\ mutex = NewMutex
    /\ sem = NewSem(0)
    /\ pc = [t \in Tasks |-> IF t = first_task THEN "user"
                             ELSE IF t = idle_task THEN "idle" ELSE "none"]
    /\ local = [t \in Tasks |-> NoLocal]
    /\ obs = NoObs
    /\ paddr_alloc = [k \in 0 .. (2 * ResPages - 1) |-> IF k <= 5 THEN 1 ELSE 0]
    /\ gdt_table = BootGdt
    /\ tty = NewTty
    /\ kernel_pages = {}
    /\ task_list = BootTaskList(tasks)
    /\ eflags = EFLAGS_IF
    /\ kmutex = [m \in KMutexes |-> NewMutex]

NextOrphan ==
    \/ ResFork
    \/ ResExit
    \/ ResWait
    \/ Yield

SpecOrphan == InitOrphan /\ [][NextOrphan]_vars

----------------------------------------------------------------------------
(* memory_copy_uvm_data into the address space a task has built with sbrk   *)

\* the destination addresses and the sizes of the copies
CopyTos == {0, 2048, 4096, 6144, 8192, 12288}
CopySizes == {1, 2048, 4096, 6144}

\* the while loop of memory_copy_uvm_data; done lists the kernel_memcpy
\* calls made so far, each by its destination, its source and its length
RECURSIVE memory_copy_uvm_data(_, _, _, _, _)
memory_copy_uvm_data(to, dir, from, size, done) ==
    IF size <= 0
    THEN [ret |-> 0, done |-> done]
    ELSE LET to_paddr == memory_get_paddr(dir, to)
             offset_in_page == to_paddr % MEM_PAGE_SIZE
             curr_size == IF MEM_PAGE_SIZE - offset_in_page > size
                          THEN size
                          ELSE MEM_PAGE_SIZE - offset_in_page
         IN  IF to_paddr = 0
             THEN [ret |-> -1, done |-> done]
             ELSE memory_copy_uvm_data(
                      to + curr_size, dir, from + curr_size, size - curr_size,
                      Append(done, [to_paddr |-> to_paddr, from |-> from,
                                    curr_size |-> curr_size]))

\* memory_copy_uvm_data(to, page_dir, from, size) by kernel code, with the
\* page directory of the current task and a source buffer at address 0 of
\* its own numbering
CopyUvmData ==
    \E t \in Tasks, to \in CopyTos, size \in CopySizes :
        /\ Runs(t, "user")
        /\ to + size <= UserSpace
        /\ \E r \in {memory_copy_uvm_data(to, tasks[t].page_dir, 0, size, << >>)} :
               local' = [local EXCEPT ![t] =
                           [child |-> NoTask, move_child |-> 0, k |-> 0,
                            blocked |-> 0, op |-> "copy_uvm_data",
                            ret |-> r.ret, status |-> 0, to |-> to,
                            size |-> size, done |-> r.done]]
        /\ UNCHANGED << kmutex, eflags, task_list, tty, tasks, curr_task, ready_list, sleep_list,
                        task_table_mutex, mutex, sem, pc, obs, gdt_table,
                        paddr_alloc, kernel_pages >>

NextCopy ==
    \/ Sbrk
    \/ CopyUvmData

SpecCopy == InitMem /\ [][NextCopy]_vars

----------------------------------------------------------------------------
(* Two tasks that call fork while the timer preempts them: the first task   *)
(* and a child it has forked into the first slot of task_table[].           *)

InitFork ==
    /\ tasks = [t \in Tasks |->
                  IF t = idle_task THEN NewTask(t, TASK_CREATED)
                  ELSE IF t = first_task
                  THEN [NewTask(t, TASK_READY) EXCEPT
                          !.run_node = [pre |-> NoTask, next |-> t + 1]]
                  ELSE IF t = first_task + 1
                  THEN [NewTask(t, TASK_READY) EXCEPT
                          !.parent = first_task,
                          !.run_node = [pre |-> t - 1, next |-> NoTask]]
                  ELSE ZeroTask]
    /\ curr_task = first_task
    /\ ready_list = [first |-> first_task, last |-> first_task + 1, count |-> 2]
    /\ sleep_list = EmptyList
    /\ task_table_mutex = NewMutex
    /\ mutex = NewMutex
    /\ sem = NewSem(0)
    /\ pc = [t \in Tasks |-> IF t = idle_task THEN "idle"
                             ELSE IF t <= first_task + 1 THEN "user"
                             ELSE "none"]
    /\ local = [t \in Tasks |-> NoLocal]
    /\ obs = [NoObs EXCEPT !.forked[first_task + 1] =
                             [by |-> first_task, ret |-> first_task + 1]]
    /\ paddr_alloc = ImageBitmap
    /\ gdt_table = BootGdt
    /\ tty = NewTty
    /\ kernel_pages = {}
    /\ task_list = BootTaskList(tasks)
    /\ eflags = EFLAGS_IF
    /\ kmutex = [m \in KMutexes |-> NewMutex]

\* sys_fork: alloc_task up to the mutex_lock, by any task at user level
ForkEnter ==
    \E t \in Tasks :
        /\ Runs(t, "user")
        /\ ttm_lock(t, "fork_scan")
        /\ Enter(t)
        /\ UNCHANGED << kmutex, eflags, task_list, tty, gdt_table, paddr_alloc, kernel_pages, mutex, sem >>

NextFork ==
    \/ Tick
    \/ ForkEnter
    \/ ForkScan
    \/ ForkInit
    \/ ForkStart

SpecFork == InitFork /\ [][NextFork]_vars

----------------------------------------------------------------------------
(* sys_fork in two steps, so that a task switch can fall between the        *)
(* clean-up of tss_init and the clean-up at fork_failed, beside kernel code  *)
(* that allocates and frees pages.  The first task is the one that forks.    *)

\* sys_fork up to the return of task_init when tss_init fails, and to its
\* end when tss_init succeeds
ForkTssInit ==
    \E t \in {first_task} :
        /\ Runs(t, "user")
        /\ \E child \in {i \in task_table : tasks[i].name = 0} :
             /\ \A i \in task_table : tasks[i].name = 0 => child <= i
             /\ \E i \in {tss_init(tasks[child], paddr_alloc, gdt_table)} :
                  IF i.err < 0
                  THEN /\ tasks' = [tasks EXCEPT ![child] = i.task]
                       /\ paddr_alloc' = i.bits
                       /\ gdt_table' = i.gdt
                       /\ pc' = [pc EXCEPT ![t] = "fork_failed"]
                       /\ local' = [local EXCEPT
                                      ![t] = [NoLocal EXCEPT !.op = "fork",
                                                             !.child = child]]
                       /\ UNCHANGED << curr_task, ready_list, sleep_list >>
                  ELSE \E r \in {sys_fork(Sched, paddr_alloc, gdt_table)} :
                         /\ Commit(r.K)
                         /\ paddr_alloc' = r.bits
                         /\ gdt_table' = r.gdt
                         /\ pc' = IF r.ret < 0 THEN pc
                                  ELSE [pc EXCEPT ![r.child] =
                                          IF r.K.T[r.child].cr3 = -1 THEN "fault"
                                          ELSE "user"]
                         /\ local' = [local EXCEPT
                                        ![t] = [NoLocal EXCEPT !.op = "fork",
                                                               !.ret = r.ret,
                                                               !.child = r.child]]
        /\ UNCHANGED << kmutex, eflags, task_list, tty, task_table_mutex, mutex, sem, obs, kernel_pages >>

\* fork_failed: task_uninit(child_task), free_task(child_task), return -1
ForkFailed ==
    \E t \in Tasks :
        /\ Runs(t, "fork_failed")
        /\ \E u \in {task_uninit(tasks[local[t].child], paddr_alloc, gdt_table)} :
               /\ tasks' = [tasks EXCEPT ![local[t].child] = u.task]
               /\ paddr_alloc' = u.bits
               /\ gdt_table' = u.gdt
        /\ pc' = [pc EXCEPT ![t] = "user"]
        /\ local' = [local EXCEPT ![t].ret = -1]
        /\ UNCHANGED << kmutex, eflags, task_list, tty, curr_task, ready_list, sleep_list, task_table_mutex,
                        mutex, sem, obs, kernel_pages >>

NextUndo ==
    \/ Tick
    \/ ForkTssInit
    \/ ForkFailed
    \/ Fault
    \/ KernelAlloc
    \/ KernelFree

SpecUndo == InitFork /\ [][NextUndo]_vars

----------------------------------------------------------------------------
(* The interrupt flag.  The specifications above take a section between     *)
(* irq_enter_protection and irq_leave_protection as one action and tell     *)
(* from pc whether interrupts are on.  Here the flag is a variable: a       *)
(* section is entered, its body runs, and it is left, in three steps; an    *)
(* interrupt passes its gate first and returns with iret last.  A task's    *)
(* saved irq_state_t values are local[t].state, innermost last, and its     *)
(* interrupt frame is local[t].frame.                                       *)

\* cli: EFLAGS with the IF bit cleared
cli(fl) == fl - ((fl \div EFLAGS_IF) % 2) * EFLAGS_IF

\* irq_enter_protection: state = read_eflags(); irq_disable_global()
irq_enter_protection(fl) == [state |-> fl, eflags |-> cli(fl)]

\* irq_leave_protection(state): write_eflags(state)
irq_leave_protection(state) == state

\* the calls whose interrupts-off section is followed, and the interrupts
SysOps == {"yield", "msleep", "sem_wait", "mutex_lock", "mutex_unlock", "exit",
           "wait"}
IrqOps == {"tick", "kbd"}

\* the argument of a call
IrqArgs(op) ==
    IF op = "msleep" THEN MsValues ELSE IF op = "exit" THEN ExitCodes ELSE {0}

IrqLocal(op, k, state, frame) ==
    [child |-> NoTask, move_child |-> 0, k |-> k, blocked |-> 0, op |-> op,
     ret |-> 0, status |-> 0, state |-> state, frame |-> frame]

\* the Zombie children of a task
Zombies(t) ==
    {i \in task_table : tasks[i].parent = t /\ tasks[i].state = TASK_ZOMBIE}

\* EFLAGS after a switch to task u: a task that left the CPU inside a section
\* continues in it with interrupts off, a task that has not run yet starts
\* with the EFLAGS_IF of its TSS
Resume(u) == IF pc[u] = "leave" THEN 0 ELSE EFLAGS_IF

\* what the section of a call or of an interrupt handler does
IrqSection(t, op, k) ==
    IF op = "yield"
    THEN [K |-> sys_yield(Sched), S |-> sem, M |-> mutex]
    ELSE IF op = "msleep"
    THEN [K |-> sys_msleep(Sched, k), S |-> sem, M |-> mutex]
    ELSE IF op = "sem_wait"
    THEN Only({ [K |-> r.K, S |-> r.S, M |-> mutex]
                : r \in {sem_wait(Sched, sem)} })
    ELSE IF op = "mutex_lock"
    THEN Only({ [K |-> r.K, S |-> sem, M |-> r.M]
                : r \in {mutex_lock(Sched, mutex)} })
    ELSE IF op = "mutex_unlock"
    THEN Only({ [K |-> r.K, S |-> sem, M |-> r.M]
                : r \in {mutex_unlock(Sched, mutex)} })
    ELSE IF op = "exit"
    THEN [K |-> sys_exit_final(
                  [Sched EXCEPT !.T[t].file_table = NoFiles], k, 0),
          S |-> sem, M |-> mutex]
    ELSE IF op = "wait"
    THEN [K |-> task_dispatch([task_set_block(Sched, t) EXCEPT
                                 !.T[t].state = TASK_WAITING]),
          S |-> sem, M |-> mutex]
    ELSE IF op = "tick"
    THEN [K |-> task_time_tick(Sched), S |-> sem, M |-> mutex]
    ELSE Only({ [K |-> r.K, S |-> r.S, M |-> mutex]
                : r \in {sem_notify(Sched, sem)} })

\* a system call up to its irq_enter_protection
SysEnter ==
    \E t \in Tasks, op \in SysOps :
        /\ Runs(t, "user")
        /\ op = "exit" => t \in task_table
        /\ op = "wait" => Zombies(t) = {}
        /\ op = "mutex_lock" => mutex.owner # t \/ mutex.locked_count < MaxLock
        /\ \E k \in IrqArgs(op), r \in {irq_enter_protection(eflags)} :
             /\ eflags' = r.eflags
             /\ local' = [local EXCEPT
                            ![t] = IrqLocal(op, k, << r.state >>, << >>)]
        /\ pc' = [pc EXCEPT ![t] = "crit"]
        /\ UNCHANGED << tasks, curr_task, ready_list, sleep_list,
                        task_table_mutex, mutex, sem, obs, gdt_table, tty,
                        paddr_alloc, kernel_pages, task_list, kmutex >>

\* the timer or the keyboard interrupts the current task: the interrupt gate
\* pushes EFLAGS and clears IF
IrqGate ==
    \E t \in Tasks, op \in IrqOps :
        /\ curr_task = t
        /\ pc[t] \in {"user", "idle"}
        /\ eflags = EFLAGS_IF
        /\ op = "kbd" => sem.count < SemCap
        /\ eflags' = cli(eflags)
        /\ local' = [local EXCEPT
                       ![t] = IrqLocal(op, 0, << >>,
                                       << [pc |-> pc[t], eflags |-> eflags] >>)]
        /\ pc' = [pc EXCEPT ![t] = "handler"]
        /\ UNCHANGED << tasks, curr_task, ready_list, sleep_list,
                        task_table_mutex, mutex, sem, obs, gdt_table, tty,
                        paddr_alloc, kernel_pages, task_list, kmutex >>

\* irq_enter_protection inside the handler, where interrupts are off already
HandlerEnter ==
    \E t \in Tasks :
        /\ Runs(t, "handler")
        /\ \E r \in {irq_enter_protection(eflags)} :
             /\ eflags' = r.eflags
             /\ local' = [local EXCEPT ![t].state = Append(@, r.state)]
        /\ pc' = [pc EXCEPT ![t] = "crit"]
        /\ UNCHANGED << tasks, curr_task, ready_list, sleep_list,
                        task_table_mutex, mutex, sem, obs, gdt_table, tty,
                        paddr_alloc, kernel_pages, task_list, kmutex >>

\* the body of the section, with the task switch it may end in
IrqBody ==
    \E t \in Tasks :
        /\ Runs(t, "crit")
        /\ \E r \in {IrqSection(t, local[t].op, local[t].k)} :
             /\ Commit(r.K)
             /\ sem' = r.S
             /\ mutex' = r.M
             /\ eflags' = IF r.K.curr \in Tasks \ {t} THEN Resume(r.K.curr)
                          ELSE eflags
        /\ pc' = [pc EXCEPT ![t] = IF local[t].op = "exit" THEN "zombie"
                                   ELSE "leave"]
        /\ UNCHANGED << task_table_mutex, local, obs, gdt_table, tty,
                        paddr_alloc, kernel_pages, task_list, kmutex >>

\* irq_leave_protection(state)
IrqLeave ==
    \E t \in Tasks :
        /\ Runs(t, "leave")
        /\ eflags' = irq_leave_protection(local[t].state[Len(local[t].state)])
        /\ local' = [local EXCEPT
                       ![t].state = SubSeq(@, 1, Len(@) - 1)]
        /\ pc' = [pc EXCEPT ![t] = IF local[t].frame = << >> THEN "user"
                                   ELSE "iret"]
        /\ UNCHANGED << tasks, curr_task, ready_list, sleep_list,
                        task_table_mutex, mutex, sem, obs, gdt_table, tty,
                        paddr_alloc, kernel_pages, task_list, kmutex >>

\* iret: EFLAGS and eip come back from the interrupt frame
Iret ==
    \E t \in Tasks :
        /\ Runs(t, "iret")
        /\ eflags' = local[t].frame[1].eflags
        /\ pc' = [pc EXCEPT ![t] = local[t].frame[1].pc]
        /\ local' = [local EXCEPT ![t].frame = << >>]
        /\ UNCHANGED << tasks, curr_task, ready_list, sleep_list,
                        task_table_mutex, mutex, sem, obs, gdt_table, tty,
                        paddr_alloc, kernel_pages, task_list, kmutex >>

\* sys_wait finds a Zombie child: kernel_memset(task, 0, sizeof(task_t)),
\* between mutex_lock and mutex_unlock of task_table_mutex
WaitReap ==
    \E t \in Tasks :
        /\ Runs(t, "user")
        /\ Zombies(t) # {}
        /\ \E z \in {Min(Zombies(t))} :
             /\ tasks' = [tasks EXCEPT ![z] = ZeroTask]
             /\ task_list' = task_list_memset(task_list, z)
             /\ pc' = [pc EXCEPT ![z] = "none"]
             /\ local' = [local EXCEPT
                            ![t] = [NoLocal EXCEPT !.op = "wait",
                                                   !.ret = tasks[z].pid,
                                                   !.status = tasks[z].status,
                                                   !.child = z],
                            ![z] = NoLocal]
        /\ UNCHANGED << curr_task, ready_list, sleep_list, task_table_mutex,
                        mutex, sem, obs, gdt_table, tty, paddr_alloc,
                        kernel_pages, eflags, kmutex >>

NextIrq ==
    \/ SysEnter
    \/ IrqGate
    \/ HandlerEnter
    \/ IrqBody
    \/ IrqLeave
    \/ Iret
    \/ WaitReap

SpecIrq == InitFork /\ [][NextIrq]_vars

----------------------------------------------------------------------------
(* The mutexes a system call takes, in the order it takes them.  What the   *)
(* calls do between mutex_lock and mutex_unlock is in the specifications    *)
(* above; it takes no other lock and blocks nowhere, so here a call is the  *)
(* sequence of its locks and unlocks, one step each, under the timer.       *)

\* mutex_lock(m) ... mutex_unlock(m) with no lock taken in between
Pair(m) == << [act |-> "lock", m |-> m], [act |-> "unlock", m |-> m] >>

LockOps == {"fork", "wait_reap", "wait_scan", "exit", "sbrk", "execve"}

\* a plan in which sbrk goes on to take task_table_mutex while it holds the
\* mutex of paddr_alloc
LockPlanCyclic(op) ==
    IF op = "sbrk"
    THEN << [act |-> "lock", m |-> "paddr"] >> \o Pair("task_table")
         \o << [act |-> "unlock", m |-> "paddr"] >>
    ELSE IF op = "fork"
    THEN Pair("task_table") \o Pair("gdt") \o Pair("paddr") \o Pair("file")
         \o Pair("paddr")
    ELSE IF op = "wait_reap"
    THEN << [act |-> "lock", m |-> "task_table"] >> \o Pair("paddr")
         \o << [act |-> "unlock", m |-> "task_table"] >>
    ELSE IF op = "wait_scan" THEN Pair("task_table")
    ELSE IF op = "exit" THEN Pair("file") \o Pair("task_table")
    ELSE Pair("paddr") \o Pair("file") \o Pair("paddr")

\* fork: alloc_task, gdt_alloc_desc, memory_alloc_page and memory_create_uvm,
\* file_inc_ref, memory_copy_uvm.  wait: the scan under task_table_mutex,
\* with memory_destroy_uvm and memory_free_page inside it when a Zombie is
\* found.  exit: sys_close, then the scan for children.  sbrk:
\* memory_alloc_page_for.  execve: memory_create_uvm, sys_open and sys_close,
\* the pages of the program and memory_destroy_uvm.
LockPlan(op) ==
    IF op = "fork"
    THEN Pair("task_table") \o Pair("gdt") \o Pair("paddr") \o Pair("file")
         \o Pair("paddr")
    ELSE IF op = "wait_reap"
    THEN << [act |-> "lock", m |-> "task_table"] >> \o Pair("paddr")
         \o << [act |-> "unlock", m |-> "task_table"] >>
    ELSE IF op = "wait_scan" THEN Pair("task_table")
    ELSE IF op = "exit" THEN Pair("file") \o Pair("task_table")
    ELSE IF op = "sbrk" THEN Pair("paddr")
    ELSE Pair("paddr") \o Pair("file") \o Pair("paddr")

\* the mutex_t a name stands for
MutexOf(m) == IF m = "task_table" THEN task_table_mutex ELSE kmutex[m]

\* a task enters a system call
LockCall ==
    \E t \in Tasks, op \in LockOps :
        /\ Runs(t, "user")
        /\ op = "exit" => t \in task_table
        /\ pc' = [pc EXCEPT ![t] = "locks"]
        /\ local' = [local EXCEPT
                       ![t] = [child |-> NoTask, move_child |-> 0, k |-> 0,
                               blocked |-> 0, op |-> op, ret |-> 0,
                               status |-> 0, plan |-> LockPlan(op)]]
        /\ UNCHANGED << tasks, curr_task, ready_list, sleep_list,
                        task_table_mutex, mutex, sem, obs, gdt_table, tty,
                        paddr_alloc, kernel_pages, task_list, eflags, kmutex >>

\* the next mutex_lock or mutex_unlock of the call task t is in
LockStepOf(t) ==
    /\ Runs(t, "locks")
    /\ local[t].plan # << >>
    /\ \E s \in {Head(local[t].plan)} :
       \E r \in {IF s.act = "lock" THEN mutex_lock(Sched, MutexOf(s.m))
                 ELSE mutex_unlock(Sched, MutexOf(s.m))} :
          /\ Commit(r.K)
          /\ task_table_mutex' = IF s.m = "task_table" THEN r.M
                                 ELSE task_table_mutex
          /\ kmutex' = IF s.m = "task_table" THEN kmutex
                       ELSE [kmutex EXCEPT ![s.m] = r.M]
    /\ local' = [local EXCEPT ![t].plan = Tail(@)]
    /\ UNCHANGED << pc, mutex, sem, obs, gdt_table, tty, paddr_alloc,
                    kernel_pages, task_list, eflags >>

\* the call returns; sys_exit ends in its interrupts-off section instead
LockReturnOf(t) ==
    /\ Runs(t, "locks")
    /\ local[t].plan = << >>
    /\ IF local[t].op = "exit"
       THEN /\ Commit(sys_exit_final(Sched, 0, 0))
            /\ pc' = [pc EXCEPT ![t] = "zombie"]
       ELSE /\ pc' = [pc EXCEPT ![t] = "user"]
            /\ UNCHANGED << tasks, curr_task, ready_list, sleep_list >>
    /\ UNCHANGED << local, task_table_mutex, mutex, sem, obs, gdt_table, tty,
                    paddr_alloc, kernel_pages, task_list, eflags, kmutex >>

LockStep == \E t \in Tasks : LockStepOf(t)

LockReturn == \E t \in Tasks : LockReturnOf(t)

NextLock ==
    \/ Tick
    \/ LockCall
    \/ LockStep
    \/ LockReturn

SpecLock == InitFork /\ [][NextLock]_vars

\* The timer keeps ticking, and a task that is given the CPU again and again
\* inside a system call executes the next step of the call.
SpecLockFair ==
    /\ SpecLock
    /\ WF_vars(Tick)
    /\ \A t \in Tasks : SF_vars(LockStepOf(t) \/ LockReturnOf(t))

----------------------------------------------------------------------------
(* The file table of a task: task_alloc_fd and task_remove_fd as sys_open,  *)
(* sys_dup and sys_close call them.                                         *)

\* the file_t pointers handed to task_alloc_fd
Files == {1, 2}

\* an allocation that reuses the last descriptor when the table is full
task_alloc_fd_reusing(task, file) ==
    LET free == {i \in DOMAIN task.file_table : task.file_table[i] = 0}
    IN  IF free = {}
        THEN [task |-> [task EXCEPT !.file_table[OfileNr - 1] = file],
              ret |-> OfileNr - 1]
        ELSE [task |-> [task EXCEPT !.file_table[Min(free)] = file],
              ret |-> Min(free)]

task_alloc_fd(task, file) ==
    LET free == {i \in DOMAIN task.file_table : task.file_table[i] = 0}
    IN  IF free = {}
        THEN [task |-> task, ret |-> -1]
        ELSE [task |-> [task EXCEPT !.file_table[Min(free)] = file],
              ret |-> Min(free)]

task_remove_fd(task, fd) ==
    IF fd >= 0 /\ fd < OfileNr
    THEN [task EXCEPT !.file_table[fd] = 0]
    ELSE task

AllocFd ==
    \E t \in Tasks, file \in Files :
        /\ Runs(t, "user")
        /\ \E r \in {task_alloc_fd(tasks[t], file)} :
               /\ tasks' = [tasks EXCEPT ![t] = r.task]
               /\ local' = [local EXCEPT ![t] =
                              [NoLocal EXCEPT !.op = "alloc_fd", !.k = file,
                                              !.ret = r.ret]]
        /\ UNCHANGED << kmutex, eflags, task_list, tty, curr_task, ready_list, sleep_list, task_table_mutex,
                        mutex, sem, pc, obs, gdt_table, paddr_alloc,
                        kernel_pages >>

RemoveFd ==
    \E t \in Tasks, fd \in -1 .. OfileNr :
        /\ Runs(t, "user")
        /\ tasks' = [tasks EXCEPT ![t] = task_remove_fd(tasks[t], fd)]
        /\ local' = [local EXCEPT ![t] =
                       [NoLocal EXCEPT !.op = "remove_fd", !.k = fd]]
        /\ UNCHANGED << kmutex, eflags, task_list, tty, curr_task, ready_list, sleep_list, task_table_mutex,
                        mutex, sem, pc, obs, gdt_table, paddr_alloc,
                        kernel_pages >>

NextFd ==
    \/ AllocFd
    \/ RemoveFd

SpecFd == Init /\ [][NextFd]_vars

----------------------------------------------------------------------------
(* tty.c: the keyboard puts characters into the input FIFO of the tty and   *)
(* signals sem, its isem; a task reads a line with tty_read.                *)

\* the size arguments of tty_read
ReadSizes == {2, 4}

\* tty_fifo_put into a FIFO of IbufSize bytes
tty_fifo_put(fifo, c) ==
    IF Len(fifo) >= IbufSize THEN fifo ELSE Append(fifo, c)

\* tty_write of the one character c: what it puts into the output FIFO,
\* added to out.  console_write then empties the FIFO, so osem never blocks.
tty_write(out, oflags, c) ==
    IF c = CharNL /\ "OCRLF" \in oflags
    THEN out \o << CharCR, CharNL >>
    ELSE Append(out, c)

\* the body of the loop of tty_read for the character ch it took from the
\* FIFO: buf is buf[0 .. len - 1], echo what tty_write has put out, done
\* whether the loop is left
tty_read_char(L, T, ch) ==
    IF ch = ASCII_DEL /\ Len(L.buf) = 0
    THEN [buf |-> L.buf, echo |-> L.echo, done |-> FALSE]
    ELSE Only({ [buf  |-> b,
                 echo |-> IF "IECHO" \in T.iflags
                          THEN tty_write(L.echo, T.oflags, ch) ELSE L.echo,
                 done |-> ch \in {CharCR, CharNL} \/ Len(b) >= L.k]
                : b \in { IF ch = ASCII_DEL
                          THEN SubSeq(L.buf, 1, Len(L.buf) - 1)
                          ELSE IF ch = CharNL
                          THEN IF "INLCR" \in T.iflags /\ Len(L.buf) < L.k - 1
                               THEN L.buf \o << CharCR, CharNL >>
                               ELSE Append(L.buf, CharNL)
                          ELSE Append(L.buf, ch) } })

\* tty_read(dev, addr, buf, size) up to its loop
TtyRead ==
    \E t \in Tasks, size \in ReadSizes :
        /\ Runs(t, "user")
        /\ pc' = [pc EXCEPT ![t] = "tty_wait"]
        /\ local' = [local EXCEPT ![t] =
                       [child |-> NoTask, move_child |-> 0, k |-> size,
                        blocked |-> 0, op |-> "tty_read", ret |-> -1,
                        status |-> 0, buf |-> << >>, taken |-> << >>,
                        echo |-> << >>]]
        /\ tty' = [tty EXCEPT !.keys = Len(tty.ififo)]
        /\ UNCHANGED << tasks, curr_task, ready_list, sleep_list,
                        task_table_mutex, mutex, sem, obs, gdt_table,
                        paddr_alloc, kernel_pages, task_list, eflags, kmutex >>

\* sem_wait(&tty->isem) at the top of the loop
TtyWait ==
    \E t \in Tasks :
        /\ Runs(t, "tty_wait")
        /\ \E r \in {sem_wait(Sched, sem)} :
               /\ Commit(r.K)
               /\ sem' = r.S
        /\ pc' = [pc EXCEPT ![t] = "tty_got"]
        /\ UNCHANGED << task_table_mutex, mutex, local, obs, gdt_table,
                        paddr_alloc, kernel_pages, tty, task_list, eflags, kmutex >>

\* tty_fifo_get and the rest of the loop body; tty_fifo_get of an empty FIFO
\* leaves ch uninitialised
TtyGot ==
    \E t \in Tasks :
        /\ Runs(t, "tty_got")
        /\ \E ch \in (IF Len(tty.ififo) = 0 THEN Chars ELSE {Head(tty.ififo)}) :
           \E r \in {tty_read_char(local[t], tty, ch)} :
               /\ local' = [local EXCEPT
                              ![t].buf = r.buf, ![t].echo = r.echo,
                              ![t].taken = Append(@, ch),
                              ![t].ret = IF r.done THEN Len(r.buf) ELSE -1]
               /\ pc' = [pc EXCEPT ![t] = IF r.done THEN "user" ELSE "tty_wait"]
        /\ tty' = [tty EXCEPT !.ififo = IF Len(@) = 0 THEN @ ELSE Tail(@)]
        /\ UNCHANGED << tasks, curr_task, ready_list, sleep_list,
                        task_table_mutex, mutex, sem, obs, gdt_table,
                        paddr_alloc, kernel_pages, task_list, eflags, kmutex >>

\* tty_in(ch) from the keyboard interrupt
TtyIn ==
    \E ch \in Chars :
        /\ IrqOn
        /\ tty.keys < MaxKeys
        /\ IF sem.count >= IbufSize
           THEN /\ tty' = [tty EXCEPT !.keys = @ + 1]
                /\ UNCHANGED << tasks, curr_task, ready_list, sleep_list, sem >>
           ELSE \E r \in {sem_notify(Sched, sem)} :
                /\ tty' = [tty EXCEPT !.keys = @ + 1,
                                      !.ififo = tty_fifo_put(@, ch)]
                /\ Commit(r.K)
                /\ sem' = r.S
        /\ UNCHANGED << task_table_mutex, mutex, pc, local, obs, gdt_table,
                        paddr_alloc, kernel_pages, task_list, eflags, kmutex >>

\* the buffers written: "hi\n", "\n\n", "h" and "\n"
WriteBufs == {<< 104, 105, CharNL >>, << CharNL, CharNL >>, << 104 >>,
              << CharNL >>}

\* console_write(tty): the console takes every byte out of the output FIFO
\* and signals osem once for each
console_write(T) ==
    [T EXCEPT !.ofifo = << >>, !.osem = @ + Len(T.ofifo)]

\* a tty_write that counts the bytes put, the inserted '\r' too
RECURSIVE tty_write_counting_puts(_, _, _, _)
tty_write_counting_puts(T, src, i, W) ==
    IF i > Len(src)
    THEN [T |-> T, put |-> W.put, waits |-> W.waits, len |-> W.len,
          blocked |-> FALSE]
    ELSE Only({
      IF Len(cs) > T.osem
      THEN [T |-> [T EXCEPT !.osem = 0,
                            !.ofifo = @ \o SubSeq(cs, 1, T.osem)],
            put |-> W.put \o SubSeq(cs, 1, T.osem),
            waits |-> W.waits + T.osem + 1,
            len |-> W.len, blocked |-> TRUE]
      ELSE IF Len(T.ofifo) + Len(cs) > ObufSize
      THEN [T |-> [T EXCEPT !.osem = @ - (ObufSize - Len(T.ofifo) + 1),
                            !.ofifo = @ \o SubSeq(cs, 1, ObufSize - Len(T.ofifo))],
            put |-> W.put \o SubSeq(cs, 1, ObufSize - Len(T.ofifo)),
            waits |-> W.waits + (ObufSize - Len(T.ofifo) + 1),
            len |-> W.len, blocked |-> FALSE]
      ELSE tty_write_counting_puts(
             console_write([T EXCEPT !.osem = @ - Len(cs),
                                     !.ofifo = @ \o cs]),
             src, i + 1,
             [put |-> W.put \o cs, waits |-> W.waits + Len(cs),
              len |-> W.len + Len(cs)])
      : cs \in { IF src[i] = CharNL /\ "OCRLF" \in T.oflags
                 THEN << CharCR, CharNL >> ELSE << src[i] >> } })

\* the loop of tty_write from source byte i on: cs are the bytes put for it,
\* each after a sem_wait(&tty->osem); W.put is what was put so far, W.waits
\* the sem_wait calls made and W.len the source bytes consumed.  blocked: a
\* sem_wait found osem at 0 and the task waits for the console.  A
\* tty_fifo_put that finds the FIFO full ends the loop.
RECURSIVE tty_write_loop(_, _, _, _)
tty_write_loop(T, src, i, W) ==
    IF i > Len(src)
    THEN [T |-> T, put |-> W.put, waits |-> W.waits, len |-> W.len,
          blocked |-> FALSE]
    ELSE Only({
      IF Len(cs) > T.osem
      THEN [T |-> [T EXCEPT !.osem = 0,
                            !.ofifo = @ \o SubSeq(cs, 1, T.osem)],
            put |-> W.put \o SubSeq(cs, 1, T.osem),
            waits |-> W.waits + T.osem + 1,
            len |-> W.len, blocked |-> TRUE]
      ELSE IF Len(T.ofifo) + Len(cs) > ObufSize
      THEN [T |-> [T EXCEPT !.osem = @ - (ObufSize - Len(T.ofifo) + 1),
                            !.ofifo = @ \o SubSeq(cs, 1, ObufSize - Len(T.ofifo))],
            put |-> W.put \o SubSeq(cs, 1, ObufSize - Len(T.ofifo)),
            waits |-> W.waits + (ObufSize - Len(T.ofifo) + 1),
            len |-> W.len, blocked |-> FALSE]
      ELSE tty_write_loop(
             console_write([T EXCEPT !.osem = @ - Len(cs),
                                     !.ofifo = @ \o cs]),
             src, i + 1,
             [put |-> W.put \o cs, waits |-> W.waits + Len(cs),
              len |-> W.len + 1])
      : cs \in { IF src[i] = CharNL /\ "OCRLF" \in T.oflags
                 THEN << CharCR, CharNL >> ELSE << src[i] >> } })

\* tty_write(dev, addr, buf, size) of one of the buffers
TtyWrite ==
    \E t \in Tasks, src \in WriteBufs :
        /\ Runs(t, "user")
        /\ \E r \in {tty_write_loop(tty, src, 1,
                                    [put |-> << >>, waits |-> 0, len |-> 0])} :
               /\ tty' = r.T
               /\ pc' = [pc EXCEPT ![t] = IF r.blocked THEN "tty_wblocked"
                                          ELSE "user"]
               /\ local' = [local EXCEPT ![t] =
                              [child |-> NoTask, move_child |-> 0, k |-> Len(src),
                               blocked |-> 0, op |-> "tty_write",
                               ret |-> r.len, status |-> 0, src |-> src,
                               put |-> r.put, waits |-> r.waits]]
               /\ IF r.blocked
                  THEN Commit(task_dispatch(task_set_block(Sched, t)))
                  ELSE UNCHANGED << tasks, curr_task, ready_list, sleep_list >>
        /\ UNCHANGED << task_table_mutex, mutex, sem, obs, gdt_table,
                        paddr_alloc, kernel_pages, task_list, eflags, kmutex >>

NextTty ==
    \/ TtyWrite
    \/ TtyRead
    \/ TtyWait
    \/ TtyGot
    \/ TtyIn

SpecTty == Init /\ [][NextTty]_vars

----------------------------------------------------------------------------
(* Situations of a task                                                     *)

ReadySet == ListSet(tasks, ready_list, "run_node")
SleepSet == ListSet(tasks, sleep_list, "run_node")
WaitQueueSet ==
    ListSet(tasks, task_table_mutex.wait_list, "wait_node")
        \cup ListSet(tasks, mutex.wait_list, "wait_node")
        \cup ListSet(tasks, sem.wait_list, "wait_node")
LiveTasks == {t \in Tasks : tasks[t].name # 0}
Situations(t) ==
    << t \in ReadySet,
       t \in SleepSet,
       t \in WaitQueueSet \/ tasks[t].state = TASK_WAITING,
       curr_task = t,
       tasks[t].state = TASK_ZOMBIE >>
Children(t) == {c \in task_table : tasks[c].parent = t}

\* C1: at every moment exactly one task has state Running, and it is the
\* current task.
C1_OneRunning ==
    /\ curr_task # NoTask
    /\ {t \in Tasks : tasks[t].state = TASK_RUNNING} = {curr_task}

\* C2: every live task is in exactly one of the five situations (on the ready
\* list, on the sleep list, blocked on a wait queue or waiting for a child,
\* running as the current task, Zombie), and the current task is not on the
\* ready list.
C2_OneSituation ==
    \A t \in LiveTasks :
        /\ Cardinality({i \in 1 .. 5 : Situations(t)[i]}) = 1
        /\ curr_task = t => t \notin ReadySet

\* C3: when wait returns to a parent a child that the parent forked, it
\* returns the value fork returned to the parent, which is positive, and the
\* status is the argument of the child's exit; fork returns 0 in the child.
C3_WaitReturnsChild ==
    [][\A t \in Tasks :
         /\ pc[t] = "wait_scan" /\ pc'[t] = "user" /\ local'[t].op = "wait"
              => LET c == local'[t].child
                 IN  obs.forked[c].by = t
                       => /\ local'[t].ret = obs.forked[c].ret
                          /\ local'[t].ret > 0
                          /\ local'[t].status = local[c].k
                          /\ local[c].k \in ExitCodes
         /\ pc[t] = "fork_init" /\ pc'[t] = "fork_start"
              => /\ local'[local[t].child].ret = 0
                 /\ local'[local[t].child].op = "fork"
                 /\ pc'[local[t].child] = "user"
         /\ pc[t] = "fork_start" /\ pc'[t] = "user"
              => local'[t].ret > 0]_vars

\* C3 witness: a wait that blocked first has returned the forked child's pid
\* and its exit status (the child exited after the parent entered wait)
C3_WitnessExitAfterWait ==
    \E t \in Tasks :
        /\ pc[t] = "user" /\ local[t].op = "wait" /\ local[t].blocked = 1
        /\ local[t].ret > 0 /\ local[t].status \in ExitCodes
        /\ obs.forked[local[t].child] = [by |-> t, ret |-> local[t].ret]

\* a wait that never blocked has returned the forked child's pid and status
\* (the child exited before the parent entered wait)
C3_WitnessExitBeforeWait ==
    \E t \in Tasks :
        /\ pc[t] = "user" /\ local[t].op = "wait" /\ local[t].blocked = 0
        /\ local[t].ret > 0 /\ local[t].status \in ExitCodes
        /\ obs.forked[local[t].child] = [by |-> t, ret |-> local[t].ret]

\* C4: a task blocked in wait whose child is a Zombie is woken: it does not
\* stay Waiting for ever.
C4_WaitWoken ==
    \A t \in Tasks :
        (tasks[t].state = TASK_WAITING
            /\ \E c \in Children(t) : tasks[c].state = TASK_ZOMBIE)
          ~> (tasks[t].state # TASK_WAITING)

MutexWaiters == ListSeq(tasks, mutex.wait_list, "wait_node")
SemWaiters == ListSeq(tasks, sem.wait_list, "wait_node")
ReadySeq == ListSeq(tasks, ready_list, "run_node")
SeqSet(q) == {q[i] : i \in 1 .. Len(q)}

\* C5: whenever mutex_lock returns to a task, at once, recursively or after
\* it blocked and was handed the mutex, the owner is that task and
\* locked_count is at least 1.
C5_LockReturnsOwned ==
    \A t \in Tasks :
        Runs(t, "mlock_ret") => mutex.owner = t /\ mutex.locked_count >= 1

\* a task that blocked in mutex_lock is at its return, owning the mutex
C5_WitnessAfterBlocking ==
    \E t \in Tasks :
        /\ Runs(t, "mlock_ret")
        /\ local[t].blocked = 1
        /\ mutex.owner = t

\* C6: while A owns the mutex, locked_count is the number of A's locks not
\* yet unlocked and a task that called mutex_lock meanwhile stays blocked;
\* the owner changes only at A's last unlock, to the first waiter, which is
\* then Ready and owns the mutex with locked_count 1, so that no other task
\* acquires it in between.
C6_Blocked ==
    /\ mutex.owner # NoTask
         => /\ mutex.locked_count = obs.calls[mutex.owner]
            /\ mutex.locked_count >= 1
    /\ MutexWaiters # << >> => mutex.owner # NoTask
    /\ \A b \in SeqSet(MutexWaiters) :
         b # mutex.owner /\ b # curr_task /\ b \notin ReadySet

C6_HandOff ==
    MutexWaiters # << >>
      => LET A == mutex.owner
             B == Head(MutexWaiters)
         IN  \/ /\ mutex'.owner = A
                /\ SubSeq(MutexWaiters', 1, Len(MutexWaiters)) = MutexWaiters
             \/ /\ mutex.locked_count = 1
                /\ obs'.calls[A] = 0
                /\ mutex'.owner = B
                /\ mutex'.locked_count = 1
                /\ tasks'[B].state = TASK_READY
                /\ B \in ReadySet'
                /\ MutexWaiters' = Tail(MutexWaiters)

C6_LockedUntilLastUnlock == []C6_Blocked /\ [][C6_HandOff]_vars

\* the mutex has just been handed to a waiter that has not run yet
C6_WitnessHandedOver ==
    \E b \in Tasks :
        /\ mutex.owner = b /\ mutex.locked_count = 1
        /\ pc[b] = "mlock_ret" /\ local[b].blocked = 1
        /\ curr_task # b /\ b \in ReadySet
        /\ tasks[b].state = TASK_READY

\* C7: a sem_wait that does not block and a sem_notify, in either order and
\* with no task waiting, leave sem.count as it was before the two.
C7_WaitNotifyCancel ==
    obs.last.pair # -1 => sem.count = obs.last.pair

\* a sem_notify has just followed a sem_wait that did not block
C7_WitnessWaitThenNotify ==
    /\ obs.last.op = "notify"
    /\ obs.last.pair # -1
    /\ sem.wait_list.count = 0

\* C8: tasks blocked on the same semaphore or mutex are woken in the order
\* in which they blocked: a task that leaves a wait queue is the one that has
\* waited longest.
C8_Fifo ==
    [][/\ \A t \in SeqSet(SemWaiters) \ SeqSet(SemWaiters') :
             t = Head(obs.arrive["sem"])
       /\ \A t \in SeqSet(MutexWaiters) \ SeqSet(MutexWaiters') :
             t = Head(obs.arrive["mutex"])]_vars

\* a sem_notify has woken one of two waiting tasks and the other still waits
C8_WitnessOneOfTwoWoken ==
    /\ obs.last.op = "notify"
    /\ ~obs.last.alone
    /\ Len(obs.arrive["sem"]) = 1
    /\ SemWaiters = obs.arrive["sem"]

\* C9: a task in sys_msleep(ms) is not Ready before max(1, ceil(ms / tick_ms))
\* ticks have been processed after the call, and on exactly that tick it
\* moves from the sleep list to the tail of the ready list.
C9_Asleep ==
    \A t \in Tasks :
        local[t].op = "msleep"
          => IF t \in ReadySet
             THEN obs.seen[t] = obs.need[t] /\ t \notin SleepSet
             ELSE obs.seen[t] < obs.need[t] /\ t \in SleepSet

C9_WokenToTail ==
    LET W == SleepSet \ SleepSet'
        rs == ReadySeq'
    IN  /\ W \subseteq SeqSet(rs)
        /\ \A i \in 1 .. Len(rs) :
             rs[i] \in W => \A j \in i .. Len(rs) : rs[j] \in W

FreePages == Cardinality({k \in DOMAIN paddr_alloc : paddr_alloc[k] = 0})

\* the pages sbrk(incr) has to map for a heap that ends at heap_end, and the
\* page tables among them that are not there yet
NewHeapPages(heap_end, incr) ==
    {p \in 0 .. (PdeCnt * PteCnt - 1) :
        /\ p * MEM_PAGE_SIZE >= heap_end
        /\ p * MEM_PAGE_SIZE < heap_end + incr}
NewPageTables(dir, heap_end, incr) ==
    {pde_index(p * MEM_PAGE_SIZE) : p \in NewHeapPages(heap_end, incr)}
        \ {i \in 0 .. (PdeCnt - 1) : dir[i].present}

\* C10: sys_sbrk(incr) with incr > 0 returns the previous heap_end when it
\* succeeds; when a physical page for the heap or for a page table cannot be
\* allocated it returns -1 and leaves heap_end where it was.
C10_SbrkResult ==
    [][\A t \in Tasks :
         Runs(t, "user") /\ local'[t].op = "sbrk"
           => LET incr == local'[t].k
                  pre  == tasks[t].heap_end
                  need == Cardinality(NewHeapPages(pre, incr))
                            + Cardinality(
                                NewPageTables(tasks[t].page_dir, pre, incr))
              IN  IF need <= FreePages
                  THEN local'[t].ret = pre /\ tasks'[t].heap_end = pre + incr
                  ELSE local'[t].ret = -1 /\ tasks'[t].heap_end = pre]_vars

\* the user pages a page directory maps
MappedPages(dir) ==
    {<< i, j >> \in (0 .. (PdeCnt - 1)) \X (0 .. (PteCnt - 1)) :
        dir[i].present /\ dir[i].pte[j] # 0}
CeilPage(addr) == (addr + MEM_PAGE_SIZE - 1) \div MEM_PAGE_SIZE

\* C11: a sys_sbrk(incr) that returns success has mapped exactly
\* ceil((heap_end + incr) / 4096) - ceil(heap_end / 4096) new pages in the
\* task's page directory, and sbrk(0) returns heap_end, maps nothing and
\* leaves heap_end unchanged.
C11_SbrkPages ==
    [][\A t \in Tasks :
         Runs(t, "user") /\ local'[t].op = "sbrk" /\ pc'[t] = "user"
            /\ local'[t].ret # -1
           => LET incr == local'[t].k
                  pre  == tasks[t].heap_end
              IN  /\ MappedPages(tasks[t].page_dir)
                        \subseteq MappedPages(tasks'[t].page_dir)
                  /\ Cardinality(MappedPages(tasks'[t].page_dir))
                        - Cardinality(MappedPages(tasks[t].page_dir))
                       = CeilPage(pre + incr) - CeilPage(pre)
                  /\ incr = 0 => /\ local'[t].ret = pre
                                 /\ tasks'[t] = tasks[t]
                                 /\ paddr_alloc' = paddr_alloc]_vars

\* C12: for every task heap_end >= heap_start, as uint32_t values.
C12_HeapOrdered ==
    \A t \in Tasks : tasks[t].heap_end >= tasks[t].heap_start

\* the page memory_create_uvm would take from bits for a new directory
NextDirPage(bits) == PageOf(addr_alloc_page(bits, 1).addr)

\* C13: when sys_execve fails after its new page directory was created, it
\* returns a negative value, the new directory's page is free again, and the
\* task's name, heap_start, heap_end, cr3 and saved eip are what they were
\* before the call.
C13_ExecveFailureUnchanged ==
    [][\A t \in Tasks :
         Runs(t, "user") /\ local'[t].op = "execve" /\ pc'[t] = "user"
            /\ local'[t].status = 1 /\ local'[t].ret # 0
           => /\ local'[t].ret < 0
              /\ paddr_alloc'[NextDirPage(paddr_alloc)] = 0
              /\ tasks'[t].cr3 = tasks[t].cr3
              /\ tasks'[t].page_dir = tasks[t].page_dir
              /\ tasks'[t].eip = tasks[t].eip
              /\ tasks'[t].name = tasks[t].name
              /\ tasks'[t].heap_start = tasks[t].heap_start
              /\ tasks'[t].heap_end = tasks[t].heap_end]_vars

\* what sys_execve restores on failure: everything in C13 but the name and
\* the heap bounds
C13_ExecveFailureRestored ==
    [][\A t \in Tasks :
         Runs(t, "user") /\ local'[t].op = "execve" /\ pc'[t] = "user"
            /\ local'[t].status = 1 /\ local'[t].ret # 0
           => /\ local'[t].ret < 0
              /\ paddr_alloc'[NextDirPage(paddr_alloc)] = 0
              /\ tasks'[t].cr3 = tasks[t].cr3
              /\ tasks'[t].page_dir = tasks[t].page_dir
              /\ tasks'[t].eip = tasks[t].eip]_vars

\* a failed execve after which the heap bounds are those of the file
C13_HeapChangedByFailure ==
    \E t \in Tasks :
        /\ pc[t] = "user" /\ local[t].op = "execve" /\ local[t].ret = -1
        /\ local[t].k = ProgTwo.name
        /\ tasks[t].heap_start = ProgTwo.segs[1].p_vaddr + ProgTwo.segs[1].p_memsz
        /\ tasks[t].cr3 # 0

\* every physical page of the user half of the address space of a task
SpacePages(task) ==
    LeafPages(task.page_dir) \cup TablePages(task.page_dir) \cup {task.cr3}

\* C14: after sys_execve succeeds, every physical page of the task's prior
\* address space (each mapped user page, each user page table and the old
\* directory page) is free in the physical allocator, and the task's cr3 is
\* the new directory, which is allocated.
C14_ExecveFreesOldSpace ==
    [][\A t \in Tasks :
         Runs(t, "user") /\ local'[t].op = "execve" /\ pc'[t] = "user"
            /\ local'[t].ret = 0
           => /\ \A a \in SpacePages(tasks[t]) : paddr_alloc'[PageOf(a)] = 0
              /\ tasks'[t].cr3 = PageAddr(NextDirPage(paddr_alloc))
              /\ tasks'[t].cr3 # tasks[t].cr3
              /\ paddr_alloc'[PageOf(tasks'[t].cr3)] = 1
              /\ SpacePages(tasks'[t]) \cap SpacePages(tasks[t]) = {}]_vars

\* C14 witness: the first task has replaced its boot image, whose directory,
\* page and page table were pages 3, 4 and 5, by the one-segment program
C14_WitnessBootImageFreed ==
    /\ pc[first_task] = "user"
    /\ local[first_task].op = "execve" /\ local[first_task].ret = 0
    /\ tasks[first_task].name = ProgOne.name
    /\ tasks[first_task].eip = ProgOne.entry
    /\ \A k \in 3 .. 5 : paddr_alloc[k] = 0
    /\ tasks[first_task].cr3 = PageAddr(6)

\* a step of sys_fork by task t fails: alloc_task finds no slot,
\* gdt_alloc_desc no descriptor, or the pages run out before the kernel
\* stack, the directory of tss_init and the copy of the parent's address
\* space are all allocated
ForkEarlyFailure ==
    \/ \A i \in task_table : tasks[i].name # 0
    \/ \A i \in DOMAIN gdt_table : gdt_table[i] # 0
    \/ FreePages < 2
ForkFailure(t) ==
    \/ ForkEarlyFailure
    \/ FreePages < 2 + Cardinality(SpacePages(tasks[t]))

ForkCleanedUp(t) ==
    /\ local'[t].ret = -1
    /\ ready_list' = ready_list
    /\ \A i \in task_table : tasks[i].name = 0 => tasks'[i] = ZeroTask
    /\ gdt_table' = gdt_table
    /\ paddr_alloc' = paddr_alloc

\* C15: if any step of sys_fork fails, the parent sees -1, no child is put
\* on the ready list, and the child's task slot, TSS descriptor, kernel stack
\* page and directory pages are free again.
C15_ForkFailureCleansUp ==
    [][\A t \in Tasks :
         Runs(t, "user") /\ local'[t].op = "fork" /\ ForkFailure(t)
           => ForkCleanedUp(t)]_vars

\* the failures before memory_copy_uvm are cleaned up
C15_EarlyFailureCleansUp ==
    [][\A t \in Tasks :
         Runs(t, "user") /\ local'[t].op = "fork" /\ ForkEarlyFailure
           => ForkCleanedUp(t)]_vars

\* C16: when sys_wait finds a Zombie child it returns the child's pid and
\* exit status and releases the child's address space pages, its kernel stack
\* page, its TSS descriptor in the GDT and its task slot.
C16_WaitReleasesChild ==
    [][\A t \in Tasks :
         curr_task = t /\ local'[t].op = "wait" /\ pc'[t] = "user"
           => \E z \in {local'[t].child} :
                /\ tasks[z].state = TASK_ZOMBIE /\ tasks[z].parent = t
                /\ local'[t].ret = tasks[z].pid
                /\ local'[t].status = tasks[z].status
                /\ \A a \in SpacePages(tasks[z]) : paddr_alloc'[PageOf(a)] = 0
                /\ paddr_alloc'[PageOf(tasks[z].esp0 - MEM_PAGE_SIZE)] = 0
                /\ tasks'[z] = ZeroTask
                /\ gdt_table'[tasks[z].tss_sel \div DescSize] = 0]_vars

\* what sys_wait does release: everything in C16 but the TSS descriptor
C16_WaitReleasesPages ==
    [][\A t \in Tasks :
         curr_task = t /\ local'[t].op = "wait" /\ pc'[t] = "user"
           => \E z \in {local'[t].child} :
                /\ tasks[z].state = TASK_ZOMBIE /\ tasks[z].parent = t
                /\ local'[t].ret = tasks[z].pid
                /\ local'[t].status = tasks[z].status
                /\ \A a \in SpacePages(tasks[z]) : paddr_alloc'[PageOf(a)] = 0
                /\ paddr_alloc'[PageOf(tasks[z].esp0 - MEM_PAGE_SIZE)] = 0
                /\ tasks'[z] = ZeroTask]_vars

\* every descriptor is taken, no forked task exists, and fork has failed
C16_GdtExhausted ==
    /\ \A i \in DOMAIN gdt_table : gdt_table[i] # 0
    /\ \A i \in task_table : tasks[i].name = 0
    /\ \E t \in Tasks : local[t].op = "fork" /\ local[t].ret = -1

\* the holders of the page at physical address a: the tasks whose kernel
\* stack or user address space it belongs to, and kernel code (NoTask) for a
\* page it took with memory_alloc_page
Holders(a) ==
    {t \in Tasks : /\ tasks[t].name # 0
                   /\ \/ a = tasks[t].esp0 - MEM_PAGE_SIZE
                      \/ a \in SpacePages(tasks[t])}
        \cup (IF a \in kernel_pages THEN {NoTask} ELSE {})

\* C17: every page marked allocated in the bitmap has exactly one holder: no
\* allocated page is orphaned and none belongs to two address spaces.
C17_PagesOwnedOnce ==
    \A k \in DOMAIN paddr_alloc :
        paddr_alloc[k] = 1 => Cardinality(Holders(PageAddr(k))) = 1

\* no page belongs to two holders
C17_NoPageShared ==
    \A k \in DOMAIN paddr_alloc : Cardinality(Holders(PageAddr(k))) <= 1

\* the tasks that are inside sys_fork with a slot alloc_task gave them
Forking == {t \in Tasks : pc[t] \in {"fork_init", "fork_start"}}

\* C18: a slot of task_table[] is owned by at most one task at a time, so no
\* two tasks share a pid: two calls of fork that are in progress together
\* hold different slots, and a slot that fork is initialising is not yet a
\* started task.
C18_SlotOwnedOnce ==
    /\ \A t1, t2 \in Forking : t1 # t2 => local[t1].child # local[t2].child
    /\ \A t \in Forking :
         pc[t] = "fork_init" => obs.forked[local[t].child].by = NoTask

\* C19: task_alloc_fd returns the lowest unused index of the current task's
\* file table and stores the file there; when every entry is in use it
\* returns a negative value and leaves the table unchanged.
C19_LowestFreeFd ==
    [][\A t \in Tasks :
         Runs(t, "user") /\ local'[t].op = "alloc_fd"
           => LET table == tasks[t].file_table
                  free  == {i \in DOMAIN table : table[i] = 0}
                  ret   == local'[t].ret
              IN  IF free = {}
                  THEN ret < 0 /\ tasks'[t].file_table = table
                  ELSE /\ ret \in free
                       /\ \A i \in free : ret <= i
                       /\ tasks'[t].file_table =
                            [table EXCEPT ![ret] = local'[t].k]]_vars

\* C19 witness: an allocation has failed on a table whose every entry is in
\* use
C19_WitnessTableFull ==
    \E t \in Tasks :
        /\ local[t].op = "alloc_fd" /\ local[t].ret = -1
        /\ \A i \in DOMAIN tasks[t].file_table : tasks[t].file_table[i] # 0

\* an allocation has taken a freed index below indexes still in use
C19_WitnessHoleReused ==
    \E t \in Tasks :
        /\ local[t].op = "alloc_fd" /\ local[t].ret = 0
        /\ \A i \in DOMAIN tasks[t].file_table : tasks[t].file_table[i] # 0

\* the tty_read calls that have returned
ReadDone == {t \in Tasks : pc[t] = "user" /\ local[t].op = "tty_read"}

\* C20: with INLCR | IECHO | OCRLF set, a tty_read with a large enough
\* buffer that took 'h', 'i', '\r' from the keyboard returns the 3 bytes
\* "hi\n" and has echoed "hi\r\n"; a read that returns before its buffer is
\* full ends with a CR or LF typed, and a typed CR reaches the reader as NL.
C20_CookedLine ==
    \A t \in ReadDone :
        /\ local[t].taken = << 104, 105, CharCR >> /\ local[t].k >= 4
             => /\ local[t].ret = 3
                /\ local[t].buf = << 104, 105, CharNL >>
                /\ local[t].echo = << 104, 105, CharCR, CharNL >>
        /\ local[t].ret < local[t].k
             => local[t].taken[Len(local[t].taken)] \in {CharCR, CharNL}
        /\ local[t].taken[Len(local[t].taken)] = CharCR /\ local[t].ret > 0
             => local[t].buf[local[t].ret] = CharNL

\* what tty_read does: it returns what was typed up to and with the CR or
\* LF, a CR as CR; with Enter typed as '\n' the line "hi" is read as the 4
\* bytes "hi\r\n" and echoed as "hi\r\n"
C20_LineAsTyped ==
    \A t \in ReadDone :
        /\ local[t].ret = Len(local[t].buf)
        /\ local[t].taken = << 104, 105, CharCR >> /\ local[t].k >= 4
             => /\ local[t].buf = << 104, 105, CharCR >>
                /\ local[t].echo = << 104, 105, CharCR >>
        /\ local[t].taken = << 104, 105, CharNL >> /\ local[t].k >= 4
             => /\ local[t].buf = << 104, 105, CharCR, CharNL >>
                /\ local[t].echo = << 104, 105, CharCR, CharNL >>
        /\ local[t].ret < local[t].k
             => local[t].taken[Len(local[t].taken)] \in {CharCR, CharNL}

\* a read has returned after 'h', 'i', '\r' were typed
C20_TypedHiCR ==
    \E t \in ReadDone :
        local[t].taken = << 104, 105, CharCR >> /\ local[t].k >= 4

\* buf with a '\r' put before every '\n'
RECURSIVE WithCR(_)
WithCR(buf) ==
    IF buf = << >> THEN << >>
    ELSE (IF Head(buf) = CharNL THEN << CharCR, CharNL >> ELSE << Head(buf) >>)
            \o WithCR(Tail(buf))

\* C21: a tty_write with OCRLF set that has returned has put the source bytes
\* into the output FIFO in order with a '\r' before every '\n', has waited on
\* the output semaphore once for every byte it put, and returns the number of
\* source bytes.
C21_WriteExpandsNL ==
    \A t \in Tasks :
        pc[t] = "user" /\ local[t].op = "tty_write"
          => /\ local[t].put = WithCR(local[t].src)
             /\ local[t].waits = Len(local[t].put)
             /\ local[t].ret = Len(local[t].src)

\* C21 witness: "hi\n" was written, "hi\r\n" put and 3 returned
C21_WitnessHiNL ==
    \E t \in Tasks :
        /\ pc[t] = "user" /\ local[t].op = "tty_write"
        /\ local[t].src = << 104, 105, CharNL >>
        /\ local[t].put = << 104, 105, CharCR, CharNL >>
        /\ local[t].ret = 3

\* C22: the sys_exit of a task that took an exception in user mode ends with
\* the task a Zombie whose status is the exception's error code, and the
\* wait of its parent that reaps it returns that error code; after an
\* exception in kernel mode the handler stays halted and the current task
\* never changes.
C22_ExceptionExitsOrHalts ==
    [][ /\ \A t \in task_table :
              (/\ local[t].op = "exception"
               /\ pc[t] = "exit_final" /\ pc'[t] = "zombie")
                => /\ tasks'[t].state = TASK_ZOMBIE
                   /\ tasks'[t].status = local'[t].k
        /\ \A p \in Tasks, z \in task_table :
              (/\ local[z].op = "exception"
               /\ pc[p] = "wait_scan" /\ pc'[p] = "user"
               /\ local'[p].op = "wait" /\ local'[p].child = z)
              => /\ local'[p].status = local[z].k
                 /\ local'[p].ret = tasks[z].pid
        /\ \A t \in Tasks :
              pc[t] = "halted" => pc'[t] = "halted" /\ curr_task' = curr_task
      ]_vars

\* C22 witness: a wait has returned the error code of a child's exception
C22_WitnessWaitSawErrorCode ==
    \E p \in Tasks :
        /\ pc[p] = "user" /\ local[p].op = "wait"
        /\ local[p].status \in ErrCodes

\* C22 witness: the CPU is halted in an exception handler while a task is ready
C22_WitnessHalted ==
    /\ pc[curr_task] = "halted"
    /\ ready_list.count > 0

\* the wait queues a task is on
QueuesOf(t) ==
    {q \in {"task_table_mutex", "mutex", "sem"} :
        t \in ListSet(tasks,
                      IF q = "task_table_mutex" THEN task_table_mutex.wait_list
                      ELSE IF q = "mutex" THEN mutex.wait_list
                      ELSE sem.wait_list,
                      "wait_node")}

\* C23: no task is on more than one of the ready list, the sleep list and a
\* wait queue of a semaphore or mutex; a task on a wait queue is on neither
\* list and on exactly one wait queue.
C23_OneQueue ==
    \A t \in Tasks :
        /\ Cardinality({i \in 1 .. 3 :
                          << t \in ReadySet, t \in SleepSet,
                             QueuesOf(t) # {} >>[i]}) <= 1
        /\ QueuesOf(t) # {}
             => /\ t \notin ReadySet \cup SleepSet
                /\ Cardinality(QueuesOf(t)) = 1

\* C23 witness: one task sleeps, one waits on the semaphore and one on the mutex
C23_WitnessAllQueues ==
    \E t, u, v \in Tasks :
        /\ t \in SleepSet
        /\ QueuesOf(u) = {"sem"}
        /\ QueuesOf(v) = {"mutex"}

\* the ready list from its head on
ReadyOrder == ListSeq(tasks, ready_list, "run_node")

\* C24: the idle task is on neither the ready list nor the sleep list;
\* task_dispatch selects the idle task exactly when the ready list is empty
\* and the head of the ready list otherwise, and every step that changes the
\* current task has made that selection.
C24_IdleOnlyWhenNoneReady ==
    [][ /\ idle_task \notin ReadySet \cup SleepSet
        /\ idle_task \notin ReadySet' \cup SleepSet'
        /\ task_dispatch(Sched).curr = idle_task <=> ReadyOrder = << >>
        /\ ReadyOrder # << >> => task_dispatch(Sched).curr = Head(ReadyOrder)
        /\ curr_task' # curr_task
             => /\ curr_task' = idle_task <=> ReadyOrder' = << >>
                /\ ReadyOrder' # << >> => curr_task' = Head(ReadyOrder')
      ]_vars

\* C24 witness: the idle task runs while every other task sleeps or waits
C24_WitnessIdleRuns ==
    /\ curr_task = idle_task
    /\ ReadyOrder = << >>
    /\ SleepSet # {}
    /\ \E t \in Tasks : QueuesOf(t) # {}

\* C25: under an unbounded sequence of timer ticks every task on the ready
\* list becomes the current task or leaves the list, and it has then waited
\* at most (length of the ready list when its wait began) x time_slice ticks.
C25_RoundRobin ==
    /\ [](\A t \in Tasks :
            obs.seen[t] > 0 => obs.seen[t] <= obs.need[t] * tasks[t].time_slice)
    /\ \A t \in Tasks \ {idle_task} :
          (t \in ReadySet /\ curr_task # t)
             ~> (curr_task = t \/ t \notin ReadySet)

\* C25 witness: a task has waited two slices for its turn behind two others
C25_WitnessWaitedTwoSlices ==
    \E t \in Tasks :
        /\ t \in ReadySet /\ curr_task # t
        /\ obs.need[t] = 3
        /\ obs.seen[t] = 2 * TimeSlice - 1

\* t has exited and has not been reaped
IsZombie(t) == pc[t] = "zombie"

\* C26: the step in which T ends exit(k) leaves T Zombie with status k, on no
\* scheduler list and not current, its children with the first task as
\* parent and no task with T as parent; while T is not reaped it stays so, is
\* never ready or current, and the pages of its address space stay
\* allocated; T leaves that state only by the wait of its parent.
C26_ZombieUntilReaped ==
    [][\A t \in task_table :
         /\ pc'[t] = "zombie"
              => /\ tasks'[t].state = TASK_ZOMBIE
                 /\ tasks'[t].status = local'[t].k
                 /\ local'[t].k \in ExitCodes
                 /\ t \notin ReadySet' \cup SleepSet'
                 /\ curr_task' # t
                 /\ \A i \in task_table : tasks'[i].parent # t
                 /\ \A a \in SpacePages(tasks'[t]) : paddr_alloc'[PageOf(a)] = 1
         /\ pc[t] = "user" /\ pc'[t] = "zombie"
              => \A i \in task_table :
                    tasks[i].parent = t => tasks'[i].parent = first_task
         /\ pc[t] = "zombie" /\ pc'[t] = "zombie"
              => /\ tasks'[t].cr3 = tasks[t].cr3
                 /\ tasks'[t].page_dir = tasks[t].page_dir
                 /\ tasks'[t].status = tasks[t].status
         /\ pc[t] = "zombie" /\ pc'[t] # "zombie"
              => /\ curr_task = tasks[t].parent
                 /\ local'[curr_task].op = "wait"
                 /\ local'[curr_task].child = t
                 /\ local'[curr_task].status = tasks[t].status]_vars

\* C26 witness: a task has exited after its own child did (move_child was
\* set); both are Zombies with their address spaces, the child now has the
\* first task as parent, and the first task runs
C26_WitnessZombieKeepsSpace ==
    \E t, c \in task_table :
        /\ IsZombie(t) /\ tasks[t].parent = first_task
        /\ local[t].move_child = 1
        /\ LeafPages(tasks[t].page_dir) # {}
        /\ c # t /\ IsZombie(c) /\ tasks[c].parent = first_task
        /\ curr_task = first_task

\* the descriptors handed out and not yet given back
HeldBy(t) ==
    IF local[t].op \in {"holds", "gdt_free"} THEN {local[t].ret \div DescSize}
    ELSE {}

\* C27: gdt_alloc_desc returns the selector (index x 8) of the lowest slot
\* whose attribute is zero and marks it, never a slot set up at boot nor one
\* that is held, and -1 when no slot is free; gdt_free_sel clears exactly the
\* slot it is given; no slot is held by two callers.
C27_GdtSlots ==
    [][ /\ \A t \in Tasks :
              /\ pc[t] = "gdt_mark" /\ pc'[t] = "user"
                   => IF \A i \in DOMAIN gdt_table : gdt_table[i] # 0
                      THEN local'[t].ret = -1 /\ gdt_table' = gdt_table
                      ELSE \E i \in DOMAIN gdt_table :
                              /\ gdt_table[i] = 0
                              /\ \A j \in DOMAIN gdt_table :
                                    j < i => gdt_table[j] # 0
                              /\ local'[t].ret = i * DescSize
                              /\ i > GdtBoot
                              /\ gdt_table' = [gdt_table EXCEPT ![i] = 1]
                              /\ \A u \in Tasks : i \notin HeldBy(u)
              /\ pc[t] = "gdt_clear" /\ pc'[t] = "user"
                   => gdt_table' = [gdt_table EXCEPT
                                      ![local[t].ret \div DescSize] = 0]
        /\ \A t, u \in Tasks : t # u => HeldBy(t)' \cap HeldBy(u)' = {}
        /\ \A t \in Tasks : \A i \in HeldBy(t)' : gdt_table'[i] # 0
      ]_vars

\* C27 witness: two tasks hold the two free descriptors and the third was
\* told that the table is full
C27_WitnessFullTable ==
    \E t, u, v \in Tasks :
        /\ local[t].op = "holds" /\ local[t].ret = (GdtBoot + 1) * DescSize
        /\ local[u].op = "holds" /\ local[u].ret > local[t].ret
        /\ local[v].op = "gdt_full" /\ local[v].ret = -1

\* the readers that sem_wait(&tty->isem) has let through and that have not
\* yet called tty_fifo_get
Granted ==
    {t \in Tasks : /\ pc[t] = "tty_got"
                   /\ t \notin ListSet(tasks, sem.wait_list, "wait_node")}

\* C28: the tokens of the input semaphore (its count plus the wake-ups granted
\* to readers that have not fetched yet) never exceed the bytes in the input
\* FIFO, so every tty_fifo_get of tty_read finds a byte.
C28_TokensWithinFifo ==
    sem.count + Cardinality(Granted) <= Len(tty.ififo)

\* every tty_fifo_get of tty_read finds the FIFO non-empty
C28_GetFindsByte ==
    [][\A t \in Tasks :
         pc[t] = "tty_got" /\ pc'[t] # "tty_got" => Len(tty.ififo) > 0]_vars

\* to is an eager copy of from made out of the pages that were free in bits:
\* the same user pages are mapped, each to a page of its own that was free
CopiedSpace(from, to, bits) ==
    /\ MappedPages(to) = MappedPages(from)
    /\ \A x \in MappedPages(from) :
          /\ to[x[1]].pte[x[2]] # from[x[1]].pte[x[2]]
          /\ bits[PageOf(to[x[1]].pte[x[2]])] = 0
    /\ Cardinality(LeafPages(to)) = Cardinality(MappedPages(to))
    /\ LeafPages(to) \cap LeafPages(from) = {}

\* C29: after a fork that returned the child's pid, the child's directory
\* maps exactly the user addresses the parent maps, each to a freshly
\* allocated page of its own, and parent and child share no user page.
C29_ForkCopiesSpace ==
    [][\A t \in Tasks :
         Runs(t, "user") /\ local'[t].op = "fork" /\ local'[t].ret > 0
           => /\ CopiedSpace(tasks[t].page_dir,
                             tasks'[local'[t].child].page_dir, paddr_alloc)
              /\ \A a \in LeafPages(tasks'[local'[t].child].page_dir) :
                    paddr_alloc'[PageOf(a)] = 1]_vars

\* the same for the forks whose memory_copy_uvm returned a directory
C29_CopyIsEager ==
    [][\A t \in Tasks :
         (/\ Runs(t, "user") /\ local'[t].op = "fork" /\ local'[t].ret > 0
          /\ tasks'[local'[t].child].cr3 # -1)
           => /\ CopiedSpace(tasks[t].page_dir,
                             tasks'[local'[t].child].page_dir, paddr_alloc)
              /\ \A a \in LeafPages(tasks'[local'[t].child].page_dir) :
                    paddr_alloc'[PageOf(a)] = 1]_vars

\* C30: a mutex_unlock by a task that does not own the mutex, an unlocked
\* mutex included, leaves owner, locked_count, the wait queue and the
\* scheduler lists as they are and wakes no task.
C30_ForeignUnlockIsNoOp ==
    [][(MutexUnlock /\ mutex.owner # curr_task)
         => /\ mutex' = mutex
            /\ tasks' = tasks
            /\ ready_list' = ready_list
            /\ sleep_list' = sleep_list
            /\ curr_task' = curr_task
            /\ mutex_unlock(Sched, mutex).woke = NoTask]_vars

\* C30 witness: a task that does not own the mutex is running and may call
\* mutex_unlock, or has just done so, while the owner holds the mutex twice
\* and another task is queued on it
C30_WitnessForeignCaller ==
    /\ pc[curr_task] = "user"
    /\ mutex.owner \notin {NoTask, curr_task}
    /\ mutex.locked_count = 2
    /\ mutex.wait_list.count > 0
    /\ local[curr_task] = NoLocal

SemGranted ==
    (IF SemWait THEN 1 ELSE 0) + Len(SemWaiters) - Len(SemWaiters')

C34_MutexShape ==
    /\ mutex.locked_count >= 0
    /\ mutex.locked_count = 0 <=> mutex.owner = NoTask
    /\ mutex.wait_list.count = Len(MutexWaiters)
    /\ MutexWaiters # << >> => mutex.locked_count >= 1
    /\ mutex.owner \notin SeqSet(MutexWaiters)

\* C34 witness: the mutex was handed to a task that had waited for it and
\* is back in its mutex_lock, while another task still waits
C34_WitnessHandedWithWaiter ==
    /\ mutex.owner = curr_task
    /\ pc[curr_task] = "mlock_ret" /\ local[curr_task].blocked = 1
    /\ mutex.locked_count = 1
    /\ MutexWaiters # << >>

\* C36: after a sys_fork that returned the child's pid, heap_start and
\* heap_end of the child are those the parent had when it called fork.
C36_ForkKeepsHeap ==
    [][\A t \in Tasks :
         (ResFork /\ curr_task = t /\ local'[t].ret > 0)
           => /\ tasks'[local'[t].child].heap_start = tasks[t].heap_start
              /\ tasks'[local'[t].child].heap_end = tasks[t].heap_end]_vars

\* the pages of [to, to + size) and those of them dir maps to a page
CopyPages(to, size) == (to \div MEM_PAGE_SIZE) .. ((to + size - 1) \div MEM_PAGE_SIZE)
LeafMapped(dir, p) ==
    /\ dir[pde_index(p * MEM_PAGE_SIZE)].present
    /\ dir[pde_index(p * MEM_PAGE_SIZE)].pte[pte_index(p * MEM_PAGE_SIZE)] # 0

\* the bytes of the first n copies of a list of kernel_memcpy calls
RECURSIVE CopiedBytes(_, _)
CopiedBytes(done, n) ==
    IF n = 0 THEN 0 ELSE CopiedBytes(done, n - 1) + done[n].curr_size

\* every kernel_memcpy of the list stays inside one page that dir maps
CopiesInside(dir, done) ==
    \A n \in 1 .. Len(done) :
       /\ done[n].to_paddr - (done[n].to_paddr % MEM_PAGE_SIZE) \in LeafPages(dir)
       /\ (done[n].to_paddr % MEM_PAGE_SIZE) + done[n].curr_size <= MEM_PAGE_SIZE

\* the list copies size bytes in order: copy n takes the bytes after those
\* of the copies before it, from the source and to where dir maps them
CopiesAll(dir, to, size, done) ==
    /\ CopiedBytes(done, Len(done)) = size
    /\ \A n \in 1 .. Len(done) :
          /\ done[n].curr_size > 0
          /\ done[n].from = CopiedBytes(done, n - 1)
          /\ done[n].to_paddr =
                dir[pde_index(to + done[n].from)].pte[pte_index(to + done[n].from)]
                  + ((to + done[n].from) % MEM_PAGE_SIZE)

\* C38: memory_copy_uvm_data returns -1 and copies to mapped pages only when
\* a page of [to, to + size) has no present leaf entry in page_dir, and
\* otherwise copies the size bytes, split at the page boundaries of the
\* destination, and returns 0.
C38_CopyUvmData ==
    \A t \in Tasks :
       local[t].op = "copy_uvm_data"
         => IF \E p \in CopyPages(local[t].to, local[t].size) :
                  ~LeafMapped(tasks[t].page_dir, p)
            THEN /\ local[t].ret = -1
                 /\ CopiesInside(tasks[t].page_dir, local[t].done)
            ELSE /\ local[t].ret = 0
                 /\ CopiesInside(tasks[t].page_dir, local[t].done)
                 /\ CopiesAll(tasks[t].page_dir, local[t].to, local[t].size,
                              local[t].done)

\* the same for the copies whose destination is all mapped, or starts in an
\* unmapped page whose page table is absent or at the first byte of one
\* whose page table is present
C38_CopyChecked ==
    \A t \in Tasks :
       (/\ local[t].op = "copy_uvm_data"
        /\ \A p \in CopyPages(local[t].to, local[t].size) :
              \/ LeafMapped(tasks[t].page_dir, p)
              \/ ~tasks[t].page_dir[pde_index(p * MEM_PAGE_SIZE)].present
              \/ /\ p * MEM_PAGE_SIZE >= local[t].to
                 /\ \A q \in CopyPages(local[t].to, local[t].size) :
                       q < p => LeafMapped(tasks[t].page_dir, q))
         => IF \E p \in CopyPages(local[t].to, local[t].size) :
                  ~LeafMapped(tasks[t].page_dir, p)
            THEN /\ local[t].ret = -1
                 /\ CopiesInside(tasks[t].page_dir, local[t].done)
            ELSE /\ local[t].ret = 0
                 /\ CopiesInside(tasks[t].page_dir, local[t].done)
                 /\ CopiesAll(tasks[t].page_dir, local[t].to, local[t].size,
                              local[t].done)

\* C39: a sys_sbrk, and so the memory_alloc_for_page_dir it calls, whether
\* it fails part-way or not, clears no bit of the allocator that was set
\* before the call, and every page it took and left taken is mapped by the
\* directory of the task, as a page or as a page table.
C39_FailureFreesOwnPages ==
    [][\A t \in Tasks :
         (Sbrk /\ curr_task = t)
           => /\ \A k \in DOMAIN paddr_alloc :
                    paddr_alloc[k] = 1 => paddr_alloc'[k] = 1
              /\ \A k \in DOMAIN paddr_alloc :
                    paddr_alloc[k] = 0 /\ paddr_alloc'[k] = 1
                      => PageAddr(k) \in LeafPages(tasks'[t].page_dir)
                                           \cup TablePages(tasks'[t].page_dir)]_vars

\* C40: the clean-up at fork_failed frees no page that is free already, and
\* a page kernel code holds stays taken in the allocator, whatever runs
\* between the clean-up steps of a failing fork.
C40_NoDoubleFree ==
    /\ \A t \in Tasks :
          pc[t] = "fork_failed" /\ tasks[local[t].child].esp0 # 0
            => paddr_alloc[PageOf(tasks[local[t].child].esp0 - MEM_PAGE_SIZE)] = 1
    /\ \A a \in kernel_pages : paddr_alloc[PageOf(a)] = 1

\* the second half alone: no page is freed from under kernel code that holds it
C40_HeldPagesStayTaken ==
    \A a \in kernel_pages : paddr_alloc[PageOf(a)] = 1

\* the tasks met walking task_manager.task_list from its head
AllSeq ==
    Walk([t \in Tasks |-> [all_node |-> task_list.all_node[t]]],
         task_list.first, "all_node", Cardinality(Tasks) + 1)

\* the tasks that are initialised: live or Zombie
Initialised == {t \in Tasks : tasks[t].name # 0}

\* C37: the list of all tasks holds exactly the initialised tasks, each once,
\* its count is their number, and nothing in the list refers to a slot that
\* is not initialised.
C37_TaskListExact ==
    /\ {AllSeq[i] : i \in 1 .. Len(AllSeq)} = Initialised
    /\ Len(AllSeq) = Cardinality(Initialised)
    /\ task_list.count = Cardinality(Initialised)
    /\ \A t \in Tasks \ Initialised :
          /\ task_list.first # t
          /\ task_list.last # t
          /\ \A u \in Tasks : /\ task_list.all_node[u].pre # t
                               /\ task_list.all_node[u].next # t

\* a step changes a list of the scheduler, the semaphore or the mutex
SchedMutated ==
    \/ ready_list' # ready_list
    \/ sleep_list' # sleep_list
    \/ sem' # sem
    \/ mutex' # mutex
    \/ \E t \in Tasks : \/ tasks'[t].run_node # tasks[t].run_node
                        \/ tasks'[t].wait_node # tasks[t].wait_node

\* C31: a step that changes the ready list, the sleep list, the list of all
\* tasks, the semaphore or the mutex is taken with interrupts off, and user
\* code and the idle loop run with interrupts on again after every section.
C31_MutationsWithInterruptsOff ==
    /\ [][SchedMutated \/ task_list' # task_list => eflags = 0]_vars
    /\ [](\A t \in Tasks : curr_task = t /\ pc[t] \in {"user", "idle"}
                            => eflags = EFLAGS_IF)

\* the same without the list of all tasks
C31_SchedulerProtected == [][SchedMutated => eflags = 0]_vars

\* irq_leave_protection puts back what its irq_enter_protection read, also
\* inside a handler, and iret what the gate pushed
C31_ProtectionRestores ==
    /\ \A t \in Tasks : curr_task = t /\ pc[t] \in {"user", "idle"}
                          => eflags = EFLAGS_IF
    /\ \A t \in Tasks : curr_task = t /\ pc[t] \in {"handler", "crit", "leave", "iret"}
                          => eflags = 0

\* the tasks queued on a mutex
WaitersOf(m) == ListSet(tasks, MutexOf(m).wait_list, "wait_node")

\* the mutexes a task owns
OwnedBy(t) == {m \in KMutexes \cup {"task_table"} : MutexOf(m).owner = t}

\* a task is inside a mutex_lock that has not returned
InMutexLock(t) == \E m \in KMutexes \cup {"task_table"} : t \in WaitersOf(m)

\* C35: a task waits for a mutex holding nothing, or for the mutex of
\* paddr_alloc holding task_table_mutex; and a task queued in mutex_lock is
\* handed the mutex and runs again.
C35_LocksReturn ==
    /\ [](\A t \in Tasks : \A m \in KMutexes \cup {"task_table"} :
            t \in WaitersOf(m)
              => OwnedBy(t) \subseteq (IF m = "paddr" THEN {"task_table"} ELSE {}))
    /\ \A t \in Tasks : InMutexLock(t) ~> (curr_task = t /\ ~InMutexLock(t))

\* a task that holds task_table_mutex waits for the mutex of paddr_alloc,
\* which a task that was preempted inside its call holds
C35_WitnessNestedWait ==
    \E t, u \in Tasks :
        /\ task_table_mutex.owner = t
        /\ t \in WaitersOf("paddr")
        /\ kmutex["paddr"].owner = u
        /\ u # t

====
